---- MODULE Spec2Model ----
(***************************************************************************)
(* Data-Compilation-Tool: the per-project consolidation store of           *)
(* launcher.py (combine_files, upload_file, upload_mapped_file,            *)
(* delete_upload, reset_consolidated, download_consolidated and the        *)
(* in-memory dataframe cache) and the raw xlsx writer (_col_letter,        *)
(* _collect_strings, _df_to_sheet_xml, _write_xlsx_raw).                   *)
(*                                                                         *)
(* Spec      the store, one action per request handler (requests served    *)
(*           one after the other).                                         *)
(* SpecConc  the store under app.run(threaded=True): the steps of          *)
(*           concurrent GET /download requests and of one uploading or     *)
(*           deleting request, interleaved.                                *)
(* SpecBook  _write_xlsx_raw applied to lists of named sheets.             *)
(* SpecRead  the two Excel readers of read_file applied to sheets built     *)
(*           cell by cell and row by row.                                  *)
(* SpecXlsx  _write_xlsx_raw applied to sheet lists built column by column.*)
(* SpecCol   _col_letter run loop step by loop step on 0, 1, 2, ...        *)
(***************************************************************************)
EXTENDS Integers, Sequences, FiniteSets, TLC

VARIABLES
    pickle,       \* consolidated_data.pkl of the current project
    excel,        \* consolidated_data.xlsx of the current project (the cached artifact)
    data_cache,   \* data_cache / cache_timestamps entry "df_<project>"
    upload_log,   \* upload_log.json
    uploads_dir,  \* ids of the files saved under uploads/
    next_id,      \* the next upload identifier (timestamp + file name)
    resp,         \* the response of the last request
    dl,           \* SpecConc: the GET /download request of each serving thread
    up,           \* SpecConc: the POST /upload or DELETE /api/uploads request in progress
    sheets_data,  \* SpecXlsx: the (sheet_name, DataFrame) list handed to _write_xlsx_raw
    package,      \* SpecXlsx: what the last _write_xlsx_raw call produced
    col,          \* SpecCol: the _col_letter call in progress
    data,         \* SpecRead: the rows of the first sheet of a workbook (to_python())
    frame,        \* SpecRead: the DataFrame of the last read and the reader that made it
    config,       \* SpecProj: config.json (current_project and the projects map, in insertion order)
    projects_dir, \* SpecProj: the directories under PROJECTS_DIR, by the name get_project_path joins
    audit_log,    \* SpecAudit: audit_log.json of one project
    calls,        \* SpecAudit: the number of log_audit calls made
    completed,    \* SpecAudit: the entries whose json.dump completed, in call order
    req,          \* SpecProj: the last project request (its operation and the name it carried)
    appended,     \* SpecLetters: the entries of _COL_LETTERS appended after import
    enc           \* SpecLetters: the _df_to_sheet_xml call of each serving thread

vars == <<pickle, excel, data_cache, upload_log, uploads_dir, next_id, resp, dl, up,
          sheets_data, package, col, data, frame,
          config, projects_dir, req, audit_log, calls, completed, appended, enc>>

store_vars == <<pickle, excel, data_cache, upload_log, uploads_dir, next_id, resp, dl, up>>

writer_vars == <<sheets_data, package, col>>

reader_vars == <<data, frame>>

project_vars == <<config, projects_dir, req>>

audit_vars == <<audit_log, calls, completed>>

letters_vars == <<appended, enc>>

admin_vars == <<project_vars, audit_vars, letters_vars>>

-----------------------------------------------------------------------------
(* Bounds *)

MaxUploads == 2     \* upload identifiers handed out (and files of one POST /upload)
MaxFileRows == 1    \* data rows of an uploaded file
MaxSize == 5        \* SpecXlsx: sheets + column labels + cells of a sheet list
MaxRows == 1        \* SpecXlsx: data rows of a frame
MaxIndex == 1000    \* SpecCol: the indices 0 .. MaxIndex - 1
MaxSheets == 2      \* SpecBook: sheets of a package
MaxColumns == 4     \* SpecRead: cells of the header row of a workbook sheet
MaxDataRows == 2    \* SpecRead: rows below the header row

-----------------------------------------------------------------------------
(* Tables (DataFrames): an ordered column list and a sequence of rows, each *)
(* row a function from the column names to cell values.                     *)

UPLOAD_ID == "_upload_id"

NaNCell == 0        \* the value pd.concat fills a missing column with
LegacyId == 0       \* the '_upload_id' given to rows read back from a legacy xlsx

Range(s) == {s[i] : i \in DOMAIN s}

NoTable == [cols |-> <<>>, rows |-> <<>>]

\* [c for c in df.columns if c != '_upload_id']
RECURSIVE VisibleCols(_)
VisibleCols(cols) ==
    IF cols = <<>> THEN <<>>
    ELSE IF Head(cols) = UPLOAD_ID THEN VisibleCols(Tail(cols))
         ELSE <<Head(cols)>> \o VisibleCols(Tail(cols))

\* df[[c for c in df.columns if c != '_upload_id']]
ExportDf(df) ==
    LET vc == VisibleCols(df.cols) IN
    [cols |-> vc,
     rows |-> [r \in DOMAIN df.rows |-> [c \in Range(vc) |-> df.rows[r][c]]]]

\* new_df['_upload_id'] = upload_id  (the column is appended, or overwritten in place)
WithUploadId(df, uid) ==
    LET cols == IF UPLOAD_ID \in Range(df.cols) THEN df.cols
                ELSE df.cols \o <<UPLOAD_ID>> IN
    [cols |-> cols,
     rows |-> [r \in DOMAIN df.rows |->
                  [c \in Range(cols) |-> IF c = UPLOAD_ID THEN uid ELSE df.rows[r][c]]]]

RECURSIVE ColsNotIn(_, _)
ColsNotIn(cols, have) ==
    IF cols = <<>> THEN <<>>
    ELSE IF Head(cols) \in have THEN ColsNotIn(Tail(cols), have)
         ELSE <<Head(cols)>> \o ColsNotIn(Tail(cols), have)

\* pd.concat([a, b], ignore_index=True): the union of the columns in order of
\* first appearance, a's rows then b's, a missing cell filled with NaN
Concat(a, b) ==
    LET cols == a.cols \o ColsNotIn(b.cols, Range(a.cols))
        pad(row) == [c \in Range(cols) |-> IF c \in DOMAIN row THEN row[c] ELSE NaNCell]
    IN  [cols |-> cols,
         rows |-> [r \in 1..Len(a.rows) |-> pad(a.rows[r])]
                  \o [r \in 1..Len(b.rows) |-> pad(b.rows[r])]]

\* df[df['_upload_id'] != upload_id]
RECURSIVE DropRows(_, _)
DropRows(rows, uid) ==
    IF rows = <<>> THEN <<>>
    ELSE IF Head(rows)[UPLOAD_ID] # uid THEN <<Head(rows)>> \o DropRows(Tail(rows), uid)
         ELSE DropRows(Tail(rows), uid)

-----------------------------------------------------------------------------
(* Uploaded files, by what read_file makes of them *)

Headers == {<<>>, <<"X", "Y">>, <<"X", "Z">>, <<"Y", "X">>}

\* kind: "ok" a readable csv/xlsx, "malformed" one the reader raises on,
\*       "badext" a name allowed_file rejects, "longname" a readable csv/xlsx
\*       whose name, prefixed with the timestamp, is longer than a file name
\*       may be, so that file.save(filepath) raises OSError.
\* dtype_object: the file has a column of dtype object (always so for a column
\*       without data rows read by pandas)
Files ==
    [kind : {"ok"}, cols : Headers \ {<<>>}, nrows : 1..MaxFileRows, dtype_object : {FALSE}]
    \cup [kind : {"ok"}, cols : {<<"X", "Y">>}, nrows : {0}, dtype_object : {TRUE}]
    \cup [kind : {"ok"}, cols : {<<>>}, nrows : {0}, dtype_object : {FALSE}]
    \cup [kind : {"malformed", "badext"}, cols : {<<>>}, nrows : {0}, dtype_object : {FALSE}]
    \cup [kind : {"longname"}, cols : {<<"X", "Y">>}, nrows : {1}, dtype_object : {FALSE}]

\* allowed_file
allowed_file(f) == f.kind # "badext"

\* read_file: the sheet read, every cell of data row r holding r
read_file(f) ==
    [raised |-> f.kind \in {"malformed", "badext"},
     df |-> [cols |-> f.cols,
             rows |-> [r \in 1..f.nrows |-> [c \in Range(f.cols) |-> r]]]]

\* optimize_dataframe raises ZeroDivisionError (num_unique / num_total) on an
\* object column without rows; otherwise it changes dtypes only
optimize_raises(f) == f.nrows = 0 /\ f.cols # <<>> /\ f.dtype_object

-----------------------------------------------------------------------------
(* Files on disk *)

\* complete: the file holds a whole archive (a zip is complete once ZipFile
\*   closes and writes its central directory).
\* writers: the threads that hold the path open for writing.
\* torn: a thread opened the path for writing while another was writing it.
NoFile == [exists |-> FALSE, df |-> NoTable, mtime |-> 0, complete |-> TRUE,
           writers |-> {}, torn |-> FALSE]

WriteFile(df, t) == [exists |-> TRUE, df |-> df, mtime |-> t, complete |-> TRUE,
                     writers |-> {}, torn |-> FALSE]

NoCache == [present |-> FALSE, df |-> NoTable, mtime |-> 0]

\* if os.path.exists(files['excel']): try: os.remove(...) except OSError: pass
RemoveStaleExcel(xl, rmOk) == IF xl.exists /\ rmOk THEN NoFile ELSE xl

\* if '_upload_id' not in consolidated_df.columns: consolidated_df['_upload_id'] = 'legacy'
WithLegacyId(df) == IF UPLOAD_ID \in Range(df.cols) THEN df ELSE WithUploadId(df, LegacyId)

-----------------------------------------------------------------------------
(* combine_files *)

\* A merge whose column comparison never reports a difference
ColumnsDifferNever(new_df, consolidated_df) == FALSE

\* new_cols != existing_cols, both without '_upload_id'
ColumnsDiffer(new_df, consolidated_df) ==
    VisibleCols(new_df.cols) # VisibleCols(consolidated_df.cols)

MismatchError == "Column headers do not match!"

\* except Exception as e: return {'success': False, 'error': str(e)}
ExceptionError == "exception"

\* The result dict of combine_files together with the files it leaves behind.
\* t: the time of the call; rmOk: whether os.remove of the stale xlsx succeeds.
combine_files(pk, xl, f, upload_id, t, rmOk) ==
    LET rd == read_file(f)
        new_df == WithUploadId(rd.df, upload_id)
        fail(msg) == [success |-> FALSE, error |-> msg, rows_added |-> 0,
                      pickle |-> pk, excel |-> xl, cleared |-> FALSE]
        done(combined_df) ==
                     [success |-> TRUE, error |-> "", rows_added |-> Len(rd.df.rows),
                      pickle |-> WriteFile(combined_df, t),
                      excel |-> RemoveStaleExcel(xl, rmOk), cleared |-> TRUE]
    IN  IF rd.raised THEN fail(ExceptionError)
        ELSE IF optimize_raises(f) THEN fail(ExceptionError)
        ELSE IF pk.exists THEN
            IF ColumnsDiffer(new_df, pk.df) THEN fail(MismatchError)
            ELSE done(Concat(pk.df, new_df))
        ELSE IF xl.exists THEN
            IF ~xl.complete THEN fail(ExceptionError)
            ELSE IF ColumnsDiffer(new_df, xl.df) THEN fail(MismatchError)
            ELSE done(Concat(WithLegacyId(xl.df), new_df))
        ELSE done(new_df)

-----------------------------------------------------------------------------
(* Modification times.  The code only compares them (pickle against cache, *)
(* xlsx against pickle), so they are kept up to order: a write is stamped   *)
(* later than every file there is, and after every step the mtimes in use   *)
(* are replaced by their ranks.                                             *)

LiveTimes(pk, xl, dc) ==
    (IF pk.exists THEN {pk.mtime} ELSE {})
        \cup (IF xl.exists THEN {xl.mtime} ELSE {})
        \cup (IF dc.present THEN {dc.mtime} ELSE {})

\* The time of a request: after the last modification of any file
TimeAfter(pk, xl, dc) ==
    LET T == LiveTimes(pk, xl, dc) IN
    IF T = {} THEN 0 ELSE 1 + CHOOSE m \in T : \A u \in T : u <= m

now == TimeAfter(pickle, excel, data_cache)

TimeRank(x, T) == Cardinality({u \in T : u < x})

Commit(pk, xl, dc) ==
    LET T == LiveTimes(pk, xl, dc) IN
    /\ pickle' = IF pk.exists THEN [pk EXCEPT !.mtime = TimeRank(@, T)] ELSE pk
    /\ excel' = IF xl.exists THEN [xl EXCEPT !.mtime = TimeRank(@, T)] ELSE xl
    /\ data_cache' = IF dc.present THEN [dc EXCEPT !.mtime = TimeRank(@, T)] ELSE dc

-----------------------------------------------------------------------------
(* Responses: the handler, the HTTP status and the errors reported (for an  *)
(* upload the errors of failed_files, for a download the format and source). *)

\* body: the table a file response carries (NoTable for a JSON response)
Response(op, status, notes) ==
    [op |-> op, status |-> status, notes |-> notes, body |-> NoTable]

\* send_file(...): a response whose attachment holds the table df
FileResponse(op, notes, df) == [Response(op, 200, notes) EXCEPT !.body = df]

LogEntry(id, rows, mapped) == [id |-> id, rows |-> rows, mapped |-> mapped]

LogIds(log) == {log[i].id : i \in DOMAIN log}

RECURSIVE LogWithout(_, _)
LogWithout(log, id) ==
    IF log = <<>> THEN <<>>
    ELSE IF Head(log).id = id THEN LogWithout(Tail(log), id)
         ELSE <<Head(log)>> \o LogWithout(Tail(log), id)

-----------------------------------------------------------------------------
(* POST /upload *)

Batches == UNION {[1..n -> Files] : n \in 0..MaxUploads}

\* The for loop of upload_file over the files of the request.  An upload_id is
\* a timestamp and a file name; the id of a file that fails names nothing once
\* its saved copy is removed, so only merged files use up identifiers.  An
\* exception raised in the loop (file.save) ends it: acc.raised.
save_raises(file) == file.kind = "longname"

\* f"{file.filename} ({result['error']})"
FailedFile(file, error) == [file |-> file, error |-> error]

\* the acc of the loop before the first file
upload_start(pk, xl, log, dir, next) ==
    [pickle |-> pk, excel |-> xl, cleared |-> FALSE, log |-> log, dir |-> dir,
     next |-> next, failed_files |-> <<>>, files_processed |-> 0, raised |-> FALSE]

\* the response of upload_file after the loop: the exception handler's 500, or
\* 200 with the failed files when a file was processed, or 400 with them
upload_response(acc) ==
    IF acc.raised THEN Response("upload", 500, {ExceptionError})
    ELSE Response("upload", IF acc.files_processed > 0 THEN 200 ELSE 400,
                  {acc.failed_files[i].error : i \in DOMAIN acc.failed_files})

RECURSIVE upload_loop(_, _, _, _)
upload_loop(acc, files, t, rmOk) ==
    IF files = <<>> THEN acc
    ELSE LET file == Head(files) IN
         IF ~allowed_file(file)
         THEN upload_loop([acc EXCEPT !.failed_files = Append(@, FailedFile(file, "invalid type"))],
                          Tail(files), t, rmOk)
         ELSE IF save_raises(file)
         THEN [acc EXCEPT !.raised = TRUE]
         ELSE LET upload_id == acc.next
                  result == combine_files(acc.pickle, acc.excel, file, upload_id, t, rmOk)
              IN  upload_loop(
                    IF result.success
                    THEN [acc EXCEPT !.pickle = result.pickle,
                                     !.excel = result.excel,
                                     !.cleared = TRUE,
                                     !.log = Append(@, LogEntry(upload_id, result.rows_added, FALSE)),
                                     !.dir = @ \cup {upload_id},
                                     !.next = upload_id + 1,
                                     !.files_processed = @ + 1]
                    ELSE [acc EXCEPT !.failed_files = Append(@, FailedFile(file, result.error))],
                    Tail(files), t, rmOk)

upload_file ==
    \E files \in Batches, rmOk \in BOOLEAN :
        /\ next_id + Len(files) - 1 <= MaxUploads
        /\ LET acc == upload_loop(upload_start(pickle, excel, upload_log, uploads_dir, next_id),
                                  files, now, rmOk)
           IN  /\ Commit(acc.pickle, acc.excel,
                         IF acc.cleared THEN NoCache ELSE data_cache)
               \* save_upload_log is not reached from the exception handler
               /\ upload_log' = IF acc.raised THEN upload_log ELSE acc.log
               /\ uploads_dir' = acc.dir
               /\ next_id' = acc.next
               /\ resp' = upload_response(acc)
        /\ UNCHANGED <<dl, up, writer_vars, reader_vars, admin_vars>>

-----------------------------------------------------------------------------
(* POST /upload-mapped *)

upload_mapped_file ==
    \E file \in Files, rmOk \in BOOLEAN :
        /\ next_id <= MaxUploads
        /\ LET rd == read_file(file)
               \* df.rename(columns=mapping)[mapped_cols]: file.cols are the mapped
               \* columns; a sheet without columns has none of them (KeyError)
               raised == rd.raised \/ file.cols = <<>> \/ optimize_raises(file)
               df == WithUploadId(rd.df, next_id)
               combined_df == IF pickle.exists THEN Concat(pickle.df, df) ELSE df
           IN  IF raised
               THEN /\ resp' = Response("upload-mapped", 500, {})
                    /\ UNCHANGED <<pickle, excel, data_cache, upload_log, next_id>>
               ELSE /\ Commit(WriteFile(combined_df, now),
                              RemoveStaleExcel(excel, rmOk), NoCache)
                    /\ upload_log' = Append(upload_log, LogEntry(next_id, Len(df.rows), TRUE))
                    /\ next_id' = next_id + 1
                    /\ resp' = Response("upload-mapped", 200, {})
        /\ UNCHANGED <<uploads_dir, dl, up, writer_vars, reader_vars, admin_vars>>

-----------------------------------------------------------------------------
(* DELETE /api/uploads/<upload_id> *)

delete_upload ==
    \E upload_id \in 1..MaxUploads, rmOk \in BOOLEAN :
        /\ IF upload_id \notin LogIds(upload_log)
           THEN /\ resp' = Response("delete", 404, {})
                /\ UNCHANGED <<pickle, excel, data_cache, upload_log, uploads_dir>>
           ELSE /\ IF pickle.exists
                   THEN LET rows == DropRows(pickle.df.rows, upload_id) IN
                        Commit(
                               IF Len(rows) > 0
                               THEN WriteFile([cols |-> pickle.df.cols, rows |-> rows], now)
                               ELSE NoFile,
                               RemoveStaleExcel(excel, rmOk), NoCache)
                   ELSE UNCHANGED <<pickle, excel, data_cache>>
                /\ uploads_dir' = uploads_dir \ {upload_id}
                /\ upload_log' = LogWithout(upload_log, upload_id)
                /\ resp' = Response("delete", 200, {})
        /\ UNCHANGED <<next_id, dl, up, writer_vars, reader_vars, admin_vars>>

-----------------------------------------------------------------------------
(* POST /reset *)

reset_consolidated ==
    \E rmOk \in BOOLEAN :
        /\ IF excel.exists /\ ~rmOk
           THEN \* os.remove raises: the handler answers 500 with nothing removed
                /\ resp' = Response("reset", 500, {})
                /\ UNCHANGED <<pickle, excel, data_cache, upload_log, uploads_dir>>
           ELSE /\ Commit(NoFile, NoFile, NoCache)
                /\ upload_log' = <<>>
                /\ uploads_dir' = {}
                /\ resp' = Response("reset", IF excel.exists \/ pickle.exists THEN 200 ELSE 404,
                                    {})
        /\ UNCHANGED <<next_id, dl, up, writer_vars, reader_vars, admin_vars>>

-----------------------------------------------------------------------------
(* get_cached_dataframe and GET /download *)

\* expired: time.time() - cache_timestamps[cache_key] >= CACHE_TTL
\* raised: pd.read_excel of an xlsx that is not a whole archive
get_cached_dataframe(pk, xl, cache, expired) ==
    IF cache.present /\ ~expired /\ pk.exists /\ pk.mtime <= cache.mtime
    THEN [found |-> TRUE, raised |-> FALSE, df |-> cache.df, cache |-> cache]
    ELSE IF pk.exists
    THEN [found |-> TRUE, raised |-> FALSE, df |-> pk.df,
          cache |-> [present |-> TRUE, df |-> pk.df, mtime |-> pk.mtime]]
    ELSE IF xl.exists
    THEN [found |-> xl.complete, raised |-> ~xl.complete,
          df |-> IF xl.complete THEN xl.df ELSE NoTable, cache |-> cache]
    ELSE [found |-> FALSE, raised |-> FALSE, df |-> NoTable, cache |-> cache]

\* excel_time >= pickle_time, both files existing
ExcelUpToDate(pk, xl) == xl.exists /\ pk.exists /\ xl.mtime >= pk.mtime

\* what a failed archive write leaves at the path: ZipFile(output, 'w') has created
\* or truncated it and nothing removes it when a writestr or the close raises
TruncatedFile(t) == [exists |-> TRUE, df |-> NoTable, mtime |-> t, complete |-> FALSE,
                     writers |-> {}, torn |-> FALSE]

\* wrOk: whether the archive write of _write_excel_fast succeeds (no OSError)
download_consolidated ==
    \E file_format \in {"csv", "xlsx"}, expired \in BOOLEAN, wrOk \in BOOLEAN :
        /\ IF ~pickle.exists /\ ~excel.exists
           THEN /\ resp' = Response("download", 404, {})
                /\ UNCHANGED <<pickle, excel, data_cache>>
           ELSE LET got == get_cached_dataframe(pickle, excel, data_cache, expired)
                    export_df == ExportDf(got.df)
                IN  IF got.raised
                    THEN /\ resp' = Response("download", 500, {})
                         /\ UNCHANGED <<pickle, excel, data_cache>>
                    ELSE IF file_format = "csv"
                    THEN /\ Commit(pickle, excel, got.cache)
                         /\ resp' = FileResponse("download", {"csv"}, export_df)
                    ELSE IF ExcelUpToDate(pickle, excel)
                    THEN /\ Commit(pickle, excel, got.cache)
                         /\ resp' = FileResponse("download", {"xlsx", "cached"}, excel.df)
                    ELSE IF wrOk
                    THEN /\ Commit(pickle, WriteFile(export_df, now), got.cache)
                         /\ resp' = FileResponse("download", {"xlsx", "generated"}, export_df)
                    ELSE \* except Exception as e: return jsonify(...), 500
                         /\ Commit(pickle, TruncatedFile(now), got.cache)
                         /\ resp' = Response("download", 500, {"xlsx", "write error"})
        /\ UNCHANGED <<upload_log, uploads_dir, next_id, dl, up, writer_vars, reader_vars, admin_vars>>

-----------------------------------------------------------------------------
(* Dashboard and filtered-export requests.  They work on the DataFrame that  *)
(* get_cached_dataframe returns, which is the object held in data_cache      *)
(* whenever it came from the cache or was loaded from the pickle.            *)

\* settings.get('date_column', ''): none, a column of the files, a column of none
DateColumns == {"", "X", "W"}

\* A datetime64 cell holding ns nanoseconds since the epoch, kept apart from the
\* numbers of the files by an offset; NaT below all of them
DatetimeBase == 1000

NaTCell == DatetimeBase - 1

Timestamp(ns) == DatetimeBase + ns

\* pd.to_datetime(v, errors='coerce') on one cell: NaN gives NaT, an integer the
\* time that many nanoseconds after the epoch, a datetime itself
to_datetime(v) ==
    IF v >= NaTCell THEN v
    ELSE IF v = NaNCell THEN NaTCell
    ELSE Timestamp(v)

\* df[date_column] = pd.to_datetime(df[date_column], errors='coerce')
coerce_dates(df, date_column) ==
    [cols |-> df.cols,
     rows |-> [r \in DOMAIN df.rows |->
                  [c \in Range(df.cols) |->
                      IF c = date_column THEN to_datetime(df.rows[r][c]) ELSE df.rows[r][c]]]]

\* the cache after df was assigned to in place: df is data_cache[cache_key] when
\* get_cached_dataframe took it from the cache or from the pickle
assigned_in_place(got, pk, df) ==
    IF pk.exists THEN [got.cache EXCEPT !.df = df] ELSE got.cache

\* GET /api/date-range
get_date_range ==
    \E date_column \in DateColumns, expired \in BOOLEAN :
        /\ LET got == get_cached_dataframe(pickle, excel, data_cache, expired) IN
           IF got.raised
           THEN /\ resp' = Response("date-range", 500, {})
                /\ UNCHANGED <<pickle, excel, data_cache>>
           ELSE IF ~got.found
           THEN /\ resp' = Response("date-range", 200, {"needs_setup"})
                /\ UNCHANGED <<pickle, excel, data_cache>>
           ELSE IF date_column # "" /\ date_column \in Range(got.df.cols)
           THEN /\ Commit(pickle, excel,
                          assigned_in_place(got, pickle, coerce_dates(got.df, date_column)))
                /\ resp' = Response("date-range", 200, {})
           ELSE /\ Commit(pickle, excel, got.cache)
                /\ resp' = Response("date-range", 200, {"needs_setup"})
        /\ UNCHANGED <<upload_log, uploads_dir, next_id, dl, up, writer_vars, reader_vars, admin_vars>>

\* df[(df[date_column] >= start) & (df[date_column] <= end)]; NaT compares False
RECURSIVE between(_, _, _, _)
between(rows, date_column, start, end) ==
    IF rows = <<>> THEN <<>>
    ELSE LET v == Head(rows)[date_column]
             rest == between(Tail(rows), date_column, start, end)
         IN  IF v # NaTCell /\ v >= Timestamp(start) /\ v <= Timestamp(end)
             THEN <<Head(rows)>> \o rest ELSE rest

\* GET /api/download-filtered; ranged: start_date and end_date are both given
download_filtered ==
    \E date_column \in DateColumns, ranged \in BOOLEAN, expired \in BOOLEAN,
       start \in 0..1, file_format \in {"csv", "xlsx"} :
        /\ LET got == get_cached_dataframe(pickle, excel, data_cache, expired) IN
           IF got.raised
           THEN /\ resp' = Response("download-filtered", 500, {})
                /\ UNCHANGED <<pickle, excel, data_cache>>
           ELSE IF ~got.found
           THEN /\ resp' = Response("download-filtered", 404, {})
                /\ UNCHANGED <<pickle, excel, data_cache>>
           ELSE IF date_column # "" /\ date_column \in Range(got.df.cols) /\ ranged
           THEN LET df == coerce_dates(got.df, date_column)
                    filtered_df == [cols |-> df.cols,
                                    rows |-> between(df.rows, date_column, start, MaxFileRows)]
                IN  /\ Commit(pickle, excel, assigned_in_place(got, pickle, df))
                    /\ resp' = FileResponse("download-filtered", {file_format, "ranged"},
                                            ExportDf(filtered_df))
           ELSE /\ Commit(pickle, excel, got.cache)
                /\ resp' = FileResponse("download-filtered", {file_format}, ExportDf(got.df))
        /\ UNCHANGED <<upload_log, uploads_dir, next_id, dl, up, writer_vars, reader_vars, admin_vars>>

-----------------------------------------------------------------------------
(* Text: a Python str is the sequence of its characters *)

\* string.digits
digits == <<"0", "1", "2", "3", "4", "5", "6", "7", "8", "9">>

ascii_uppercase ==
    <<"A", "B", "C", "D", "E", "F", "G", "H", "I", "J", "K", "L", "M",
      "N", "O", "P", "Q", "R", "S", "T", "U", "V", "W", "X", "Y", "Z">>

\* chr(n) for the code points of A..Z
chr(n) == ascii_uppercase[n - 64]

\* ord(ch) for the characters of the texts modelled
ord(ch) ==
    IF \E k \in 1..26 : ascii_uppercase[k] = ch
    THEN 64 + (CHOOSE k \in 1..26 : ascii_uppercase[k] = ch)
    ELSE IF \E k \in 1..10 : digits[k] = ch
    THEN 47 + (CHOOSE k \in 1..10 : digits[k] = ch)
    ELSE CASE ch = "&" -> 38
           [] ch = "-" -> 45
           [] ch = "." -> 46
           [] ch = ";" -> 59
           [] ch = "<" -> 60
           [] ch = ">" -> 62
           [] ch = "a" -> 97
           [] ch = "e" -> 101
           [] ch = "f" -> 102
           [] ch = "g" -> 103
           [] ch = "i" -> 105
           [] ch = "l" -> 108
           [] ch = "m" -> 109
           [] ch = "n" -> 110
           [] ch = "o" -> 111
           [] ch = "p" -> 112
           [] ch = "r" -> 114
           [] ch = "t" -> 116
           [] ch = "u" -> 117

\* a < b on str: code point by code point, a proper prefix first
RECURSIVE str_lt(_, _)
str_lt(a, b) ==
    IF b = <<>> THEN FALSE
    ELSE IF a = <<>> THEN TRUE
    ELSE IF Head(a) = Head(b) THEN str_lt(Tail(a), Tail(b))
    ELSE ord(Head(a)) < ord(Head(b))

\* the strings in descending order
RECURSIVE sorted_descending(_)
sorted_descending(strings) ==
    IF strings = {} THEN <<>>
    ELSE LET last == CHOOSE s \in strings : \A o \in strings \ {s} : str_lt(o, s)
         IN  <<last>> \o sorted_descending(strings \ {last})

\* sorted(strings) for a set of str
RECURSIVE sorted(_)
sorted(strings) ==
    IF strings = {} THEN <<>>
    ELSE LET least == CHOOSE s \in strings : \A o \in strings \ {s} : str_lt(s, o)
         IN  <<least>> \o sorted(strings \ {least})

\* xml.sax.saxutils.escape: & first, then > and <
RECURSIVE _xml_escape(_)
_xml_escape(s) ==
    IF s = <<>> THEN <<>>
    ELSE (CASE Head(s) = "&" -> <<"&", "a", "m", "p", ";">>
            [] Head(s) = ">" -> <<"&", "g", "t", ";">>
            [] Head(s) = "<" -> <<"&", "l", "t", ";">>
            [] OTHER -> <<Head(s)>>) \o _xml_escape(Tail(s))

-----------------------------------------------------------------------------
(* _col_letter *)

\* chr(65 + idx % 26)
col_digit(idx) == chr(65 + (idx % 26))

\* plain base 26: idx // 26
col_rest_plain(idx) == idx \div 26

\* idx // 26 - 1
col_rest(idx) == idx \div 26 - 1

\* the while loop of _col_letter run to its break, from (result, idx)
RECURSIVE col_loop(_, _)
col_loop(result, idx) ==
    LET result1 == <<col_digit(idx)>> \o result
        idx1 == col_rest(idx)
    IN  IF idx1 < 0 THEN result1 ELSE col_loop(result1, idx1)

_col_letter(idx) == col_loop(<<>>, idx)

-----------------------------------------------------------------------------
(* Cell values and the frames handed to the xlsx writer *)

\* Python / numpy / pandas scalars: t the type, n the number, s the text
StrVal(s)   == [t |-> "str",   n |-> 0, s |-> s]
IntVal(n)   == [t |-> "int",   n |-> n, s |-> <<>>]
FloatVal(n) == [t |-> "float", n |-> n, s |-> <<>>]
BoolVal     == [t |-> "bool",  n |-> 1, s |-> <<>>]
NaN         == [t |-> "nan",   n |-> 0, s |-> <<>>]
PosInf      == [t |-> "inf",   n |-> 0, s |-> <<>>]
NegInf      == [t |-> "-inf",  n |-> 0, s |-> <<>>]
None        == [t |-> "None",  n |-> 0, s |-> <<>>]
NA          == [t |-> "NA",    n |-> 0, s |-> <<>>]
NaT         == [t |-> "NaT",   n |-> 0, s |-> <<>>]

\* str(n) for an int n >= 0
RECURSIVE decimal(_)
decimal(n) ==
    IF n < 10 THEN <<digits[n + 1]>> ELSE decimal(n \div 10) \o <<digits[(n % 10) + 1]>>

\* str(v), which is also what astype(str) makes of each element
str(v) ==
    CASE v.t = "str"   -> v.s
      [] v.t = "int"   -> decimal(v.n)
      [] v.t = "float" -> decimal(v.n) \o <<".", "0">>
      [] v.t = "bool"  -> <<"T", "r", "u", "e">>
      [] v.t = "nan"   -> <<"n", "a", "n">>
      [] v.t = "inf"   -> <<"i", "n", "f">>
      [] v.t = "-inf"  -> <<"-", "i", "n", "f">>
      [] v.t = "None"  -> <<"N", "o", "n", "e">>
      [] v.t = "NA"    -> <<"<", "N", "A", ">">>
      [] v.t = "NaT"   -> <<"N", "a", "T">>

\* the element left as astype(str) gave it
replace_missing_kept(s) == s

\* .replace({'nan': '', 'None': '', '<NA>': '', 'NaT': ''}) on one element
replace_missing(s) ==
    IF s \in {str(NaN), str(None), str(NA), str(NaT)} THEN <<>> ELSE s

\* dtype.kind in ('i', 'u', 'f')
is_numeric(kind) == kind \in {"i", "u", "f"}

pd_isna(v) == v.t \in {"nan", "None", "NA", "NaT"}

np_isinf(v) == v.t \in {"inf", "-inf"}

\* pd.isna(val) alone
is_blank_number_isna(val) == pd_isna(val)

\* pd.isna(val) or np.isinf(val)
is_blank_number(val) == pd_isna(val) \/ np_isinf(val)

\* the values a column of each dtype kind can hold
KindValues(kind) ==
    CASE kind = "i" -> {IntVal(1)}
      [] kind = "u" -> {IntVal(0)}
      [] kind = "f" -> {FloatVal(1), NaN, PosInf, NegInf}
      [] kind = "b" -> {BoolVal}
      [] kind = "O" -> {StrVal(<<"a">>), StrVal(<<"n", "a", "n">>), None, NaN, NA, NaT}

Kinds == {"i", "u", "f", "b", "O"}

\* column labels: text (one of them spelled like a missing token) and a number
ColumnLabels == {StrVal(<<"<", "N", "A", ">">>), IntVal(1)}

\* the sheet name of _write_excel_fast
Sheet1 == <<"S", "h", "e", "e", "t", "1">>

\* df.shape
shape(df) == <<df.nrows, Len(df.cols)>>

\* the cost of a sheet list: one per sheet, one per column label, one per cell
RECURSIVE SizeOf(_)
SizeOf(sheets) ==
    IF sheets = <<>> THEN 0
    ELSE 1 + Len(Head(sheets).df.cols) * (1 + Head(sheets).df.nrows) + SizeOf(Tail(sheets))

-----------------------------------------------------------------------------
(* _collect_strings, _df_to_sheet_xml, _write_xlsx_raw *)

\* df.iloc[:, c].astype(str).replace({...}).values
text_values(column) == [r \in 1..Len(column.vals) |-> replace_missing(str(column.vals[r]))]

\* the cell texts and the empty string, without the column labels
_collect_strings_cells(df) ==
    UNION {Range(text_values(df.cols[c])) :
           c \in {k \in 1..Len(df.cols) : ~is_numeric(df.cols[k].kind)}} \cup {<<>>}

_collect_strings(df) ==
    LET headers == {str(df.cols[c].header) : c \in 1..Len(df.cols)}
        cells == UNION {Range(text_values(df.cols[c])) :
                        c \in {k \in 1..Len(df.cols) : ~is_numeric(df.cols[k].kind)}}
    IN  headers \cup cells \cup {<<>>}

\* sst_index[key] raises KeyError for a key that is not in the dict
KeyError == -1

Lookup(sst_index, key) == IF key \in DOMAIN sst_index THEN sst_index[key] ELSE KeyError

\* <c r="{cl}{r_num}" t="s"><v>{sst_index[key]}</v></c>
SharedCell(cl, r_num, sst_index, key) ==
    [r |-> <<cl, r_num>>, t |-> "s", key |-> key, v |-> Lookup(sst_index, key), val |-> None]

\* a number cell addressed one row higher than its row
NumberCell_row_above(cl, r_num, val) ==
    [r |-> <<cl, r_num - 1>>, t |-> "n", key |-> <<>>, v |-> 0, val |-> val]

\* <c r="{cl}{r_num}"><v>{val}</v></c>
NumberCell(cl, r_num, val) ==
    [r |-> <<cl, r_num>>, t |-> "n", key |-> <<>>, v |-> 0, val |-> val]

\* the rows of <sheetData>: the header row, then one row per data row
_df_to_sheet_xml(df, sst_index) ==
    LET rows == shape(df)[1]
        cols == shape(df)[2]
        headers == [c \in 1..cols |-> str(df.cols[c].header)]
        col_data == [c \in 1..cols |->
                        IF is_numeric(df.cols[c].kind) THEN df.cols[c].vals
                        ELSE text_values(df.cols[c])]
        header_row == [c \in 1..cols |-> SharedCell(_col_letter(c - 1), 1, sst_index, headers[c])]
        data_row(r) ==
            [c \in 1..cols |->
                LET cl == _col_letter(c - 1)
                    val == col_data[c][r]
                IN  IF is_numeric(df.cols[c].kind)
                    THEN IF is_blank_number(val)
                         THEN SharedCell(cl, r + 1, sst_index, <<>>)
                         ELSE NumberCell(cl, r + 1, val)
                    ELSE SharedCell(cl, r + 1, sst_index, val)]
    IN  IF cols = 0 THEN <<>>
        ELSE <<header_row>> \o [r \in 1..rows |-> data_row(r)]

\* the cells of a worksheet
CellsOf(ws) == UNION {Range(ws[r]) : r \in 1..Len(ws)}

\* A part name or relationship target: its path segments; the k of sheet{k}.xml is n
Seg(s) == [s |-> s, n |-> 0]

\* sheet{i+1}.xml
SheetSeg(k) == [s |-> "sheet.xml", n |-> k]

\* ct_sheets: <Override PartName="/xl/worksheets/sheet{i+1}.xml" .../> for i in range(n)
ct_sheets(n) ==
    [k \in 1..n |-> <<Seg(""), Seg("xl"), Seg("worksheets"), SheetSeg(k)>>]

\* the Override elements of [Content_Types].xml, by PartName
content_types(n) ==
    <<<<Seg(""), Seg("xl"), Seg("workbook.xml")>>>> \o ct_sheets(n)
    \o <<<<Seg(""), Seg("xl"), Seg("styles.xml")>>,
         <<Seg(""), Seg("xl"), Seg("sharedStrings.xml")>>>>

\* <Relationship Id="rId{id}" Type=".../{type}" Target="{target}"/>
Relationship(id, type, target) == [Id |-> id, Type |-> type, Target |-> target]

\* relationships whose styles entry reuses the id of the last sheet
wb_rels_colliding(n) ==
    [k \in 1..n |-> Relationship(k, "worksheet", <<Seg("worksheets"), SheetSeg(k)>>)]
    \o <<Relationship(n, "styles", <<Seg("styles.xml")>>),
         Relationship(n + 2, "sharedStrings", <<Seg("sharedStrings.xml")>>)>>

\* xl/_rels/workbook.xml.rels: the sheets, then styles, then the shared strings
wb_rels(n) ==
    [k \in 1..n |-> Relationship(k, "worksheet", <<Seg("worksheets"), SheetSeg(k)>>)]
    \o <<Relationship(n + 1, "styles", <<Seg("styles.xml")>>),
         Relationship(n + 2, "sharedStrings", <<Seg("sharedStrings.xml")>>)>>

\* <sheet name="{_xml_escape(sheets_data[i][0])}" sheetId="{i+1}" r:id="rId{i+1}"/>:
\* name is the text written between the quotes of the name attribute
sheet_entries(sheets) ==
    [k \in 1..Len(sheets) |->
        [name |-> _xml_escape(sheets[k].name), sheetId |-> k, rid |-> k]]

\* zf.writestr(name, data); ws is the worksheet markup of a sheet part
ZipEntry(name, ws) == [name |-> name, ws |-> ws]

\* an archive whose sheet parts hold the worksheets in reverse order
zip_entries_reversed(ws_xmls) ==
    <<ZipEntry(<<Seg("[Content_Types].xml")>>, <<>>),
      ZipEntry(<<Seg("_rels"), Seg(".rels")>>, <<>>),
      ZipEntry(<<Seg("xl"), Seg("_rels"), Seg("workbook.xml.rels")>>, <<>>),
      ZipEntry(<<Seg("xl"), Seg("workbook.xml")>>, <<>>),
      ZipEntry(<<Seg("xl"), Seg("styles.xml")>>, <<>>),
      ZipEntry(<<Seg("xl"), Seg("sharedStrings.xml")>>, <<>>)>>
    \o [k \in 1..Len(ws_xmls) |->
            ZipEntry(<<Seg("xl"), Seg("worksheets"), SheetSeg(k)>>,
                     ws_xmls[Len(ws_xmls) + 1 - k])]

\* an archive without the shared-strings part
zip_entries_without_strings(ws_xmls) ==
    <<ZipEntry(<<Seg("[Content_Types].xml")>>, <<>>),
      ZipEntry(<<Seg("_rels"), Seg(".rels")>>, <<>>),
      ZipEntry(<<Seg("xl"), Seg("_rels"), Seg("workbook.xml.rels")>>, <<>>),
      ZipEntry(<<Seg("xl"), Seg("workbook.xml")>>, <<>>),
      ZipEntry(<<Seg("xl"), Seg("styles.xml")>>, <<>>)>>
    \o [k \in 1..Len(ws_xmls) |->
            ZipEntry(<<Seg("xl"), Seg("worksheets"), SheetSeg(k)>>, ws_xmls[k])]

\* the writestr calls of the with zipfile.ZipFile(...) block, in order
zip_entries(ws_xmls) ==
    <<ZipEntry(<<Seg("[Content_Types].xml")>>, <<>>),
      ZipEntry(<<Seg("_rels"), Seg(".rels")>>, <<>>),
      ZipEntry(<<Seg("xl"), Seg("_rels"), Seg("workbook.xml.rels")>>, <<>>),
      ZipEntry(<<Seg("xl"), Seg("workbook.xml")>>, <<>>),
      ZipEntry(<<Seg("xl"), Seg("styles.xml")>>, <<>>),
      ZipEntry(<<Seg("xl"), Seg("sharedStrings.xml")>>, <<>>)>>
    \o [k \in 1..Len(ws_xmls) |->
            ZipEntry(<<Seg("xl"), Seg("worksheets"), SheetSeg(k)>>, ws_xmls[k])]

NoPackage ==
    [state |-> "none", sst |-> <<>>, sst_index |-> [s \in {} |-> 0], sst_xml |-> <<>>,
     ws_xmls |-> <<>>, content_types |-> <<>>, wb_rels |-> <<>>, workbook_xml |-> <<>>,
     zip |-> <<>>]

_write_xlsx_raw(sheets) ==
    LET all_strings == UNION {_collect_strings(sheets[k].df) : k \in 1..Len(sheets)}
        sst == sorted(all_strings)
        \* {s: i for i, s in enumerate(sst)}: the last position of a key wins
        sst_index == [s \in Range(sst) |->
                         (CHOOSE i \in 1..Len(sst) :
                              sst[i] = s /\ \A j \in (i + 1)..Len(sst) : sst[j] # s) - 1]
        sst_xml == [i \in 1..Len(sst) |-> _xml_escape(sst[i])]
        ws_xmls == [k \in 1..Len(sheets) |-> _df_to_sheet_xml(sheets[k].df, sst_index)]
        raised == \E k \in 1..Len(sheets) : \E cell \in CellsOf(ws_xmls[k]) :
                      cell.t = "s" /\ cell.v = KeyError
        n == Len(sheets)
    IN  IF raised
        THEN [NoPackage EXCEPT !.state = "KeyError"]
        ELSE [state |-> "written", sst |-> sst, sst_index |-> sst_index, sst_xml |-> sst_xml,
              ws_xmls |-> ws_xmls, content_types |-> content_types(n), wb_rels |-> wb_rels(n),
              workbook_xml |-> sheet_entries(sheets), zip |-> zip_entries(ws_xmls)]

-----------------------------------------------------------------------------
(* The Excel readers of read_file.  A sheet as to_python() returns it is a  *)
(* list of rows, each a list of cells; a DataFrame read from it is its      *)
(* column list and its rows.                                                *)

DataFrame(rows, columns) == [cols |-> columns, rows |-> rows]

\* pd.DataFrame()
EmptyFrame == DataFrame(<<>>, <<>>)

\* f"{col_str}.{seen[col_str]}"
dedup_suffix_plain(col_str, count) == col_str

dedup_suffix(col_str, count) == col_str \o <<".">> \o decimal(count)

\* the for loop of _deduplicate_columns over the columns left, with seen and result
RECURSIVE dedup_loop(_, _, _)
dedup_loop(columns, seen, result) ==
    IF columns = <<>> THEN result
    ELSE LET column == Head(columns)
             col_str == IF column # None THEN str(column) ELSE <<>>
         IN IF col_str \in DOMAIN seen
            THEN LET count == seen[col_str] + 1
                 IN dedup_loop(Tail(columns), [seen EXCEPT ![col_str] = count],
                               Append(result, dedup_suffix(col_str, count)))
            ELSE dedup_loop(Tail(columns), (col_str :> 0) @@ seen, Append(result, col_str))

_deduplicate_columns(columns) == dedup_loop(columns, <<>>, <<>>)

_read_excel_calamine_unguarded(sheet) ==
    IF sheet = <<>> THEN EmptyFrame
    ELSE DataFrame(Tail(sheet), _deduplicate_columns(sheet[1]))

_read_excel_calamine(sheet) ==
    IF Len(sheet) < 2 THEN EmptyFrame
    ELSE LET headers == _deduplicate_columns(sheet[1])
             rows == Tail(sheet)
         IN DataFrame(rows, headers)

\* pandas names a blank header cell after its position: f"Unnamed: {i}"
Unnamed(i) == <<"U", "n", "n", "a", "m", "e", "d", ":", " ">> \o decimal(i)

header_names(header) ==
    [i \in 1..Len(header) |->
        IF header[i] = None THEN StrVal(Unnamed(i - 1)) ELSE header[i]]

\* pd.read_excel(filepath_or_obj, engine='openpyxl'): the first row names the
\* columns (blank cells named by position, repeated names numbered), every
\* later row is a data row, and a sheet without data rows keeps its columns
read_excel(sheet) ==
    IF sheet = <<>> THEN EmptyFrame
    ELSE DataFrame(Tail(sheet), _deduplicate_columns(header_names(sheet[1])))

\* no read yet
NoFrame == [reader |-> "none", df |-> EmptyFrame]

-----------------------------------------------------------------------------
(* The audit log of a project *)

\* "Keep last 500 entries"
AuditCap == 500

\* {'timestamp': ..., 'action': action, 'details': details}
AuditEntry(action, details) == [action |-> action, details |-> details]

\* audit_log.json: valid is FALSE when the file does not hold a complete JSON list
NoAudit == [exists |-> FALSE, valid |-> TRUE, entries |-> <<>>]

\* What can go wrong in one log_audit call: nothing; open(..., 'r') or json.load
\* raises; open(..., 'w') raises; json.dump raises after open(..., 'w') truncated
Faults == {"none", "read", "open", "dump"}

\* audit_log[-500:]
keep_last(log, n) == IF Len(log) > n THEN SubSeq(log, Len(log) - n + 1, Len(log)) ELSE log

\* whether a log_audit call on file f reaches the end of json.dump
audit_written(f, fault) ==
    /\ ~(f.exists /\ (fault = "read" \/ ~f.valid))
    /\ fault \notin {"open", "dump"}

\* log_audit: the audit file after the call; every exception is caught and logged
log_audit(f, entry, fault) ==
    IF f.exists /\ (fault = "read" \/ ~f.valid) THEN f
    ELSE LET audit_log_0 == IF f.exists THEN f.entries ELSE <<>>
             audit_log_1 == Append(audit_log_0, entry)
             audit_log_2 == IF Len(audit_log_1) > AuditCap
                            THEN keep_last(audit_log_1, AuditCap) ELSE audit_log_1
         IN  CASE fault = "open" -> f
               [] fault = "dump" -> [exists |-> TRUE, valid |-> FALSE, entries |-> <<>>]
               [] OTHER -> [exists |-> TRUE, valid |-> TRUE, entries |-> audit_log_2]

-----------------------------------------------------------------------------
(* Projects: config.json and the directories under PROJECTS_DIR *)

\* str.strip(chars)
RECURSIVE lstrip(_, _)
lstrip(s, chars) ==
    IF s # <<>> /\ Head(s) \in chars THEN lstrip(Tail(s), chars) ELSE s

RECURSIVE rstrip(_, _)
rstrip(s, chars) ==
    IF s # <<>> /\ s[Len(s)] \in chars THEN rstrip(SubSeq(s, 1, Len(s) - 1), chars) ELSE s

strip(s, chars) == rstrip(lstrip(s, chars), chars)

\* "_".join(filename.split()) of a text without blanks at its ends
RECURSIVE underscore_runs(_)
underscore_runs(s) ==
    IF s = <<>> THEN <<>>
    ELSE IF Head(s) = " "
         THEN <<"_">> \o underscore_runs(lstrip(s, {" "}))
         ELSE <<Head(s)>> \o underscore_runs(Tail(s))

\* werkzeug's secure_filename on ASCII text: path separators become blanks, blank
\* runs become "_", characters outside [A-Za-z0-9_.-] are dropped, and "." and "_"
\* are stripped from both ends
secure_filename(filename) ==
    LET spaced == [i \in DOMAIN filename |-> IF filename[i] = "/" THEN " " ELSE filename[i]]
        joined == underscore_runs(strip(spaced, {" "}))
        \* [A-Za-z0-9_.-] among the characters of the names modelled
        kept == Range(ascii_uppercase) \cup Range(digits) \cup {"a", "b", "_", ".", "-"}
    IN  strip(SelectSeq(joined, LAMBDA ch : ch \in kept), {".", "_"})

\* Paths are written relative to PROJECTS_DIR
PROJECTS_DIR == <<>>

\* os.path.join(PROJECTS_DIR, secure_filename(project_name))
get_project_path(project_name) == PROJECTS_DIR \o secure_filename(project_name)

\* The names a project request may carry
ProjectNames ==
    { <<>>, <<" ">>, <<"a">>, <<"a", " ", "b">>, <<"a", "_", "b">>, <<"#">> }

Paths == {get_project_path(strip(n, {" "})) : n \in ProjectNames}

\* Python's None where a project name is expected
NoProject == <<"None">>

\* load_config() when config.json does not exist
NoConfig == [current_project |-> NoProject, projects |-> <<>>]

\* A directory: whether it exists, its uploads/ subdirectory, settings.json, audit_log.json
NoDir == [exists |-> FALSE, uploads |-> FALSE, settings |-> FALSE, audit_log |-> NoAudit]

\* os.makedirs(path, exist_ok=True)
makedirs(tree, path) ==
    [tree EXCEPT ![PROJECTS_DIR].exists = TRUE, ![path].exists = TRUE]

\* shutil.rmtree(path)
rmtree(tree, path) ==
    IF path = PROJECTS_DIR THEN [p \in Paths |-> NoDir] ELSE [tree EXCEPT ![path] = NoDir]

\* del config['projects'][name]
without(projects, project_name) == SelectSeq(projects, LAMBDA p : p # project_name)

\* config['current_project'] after del config['projects'][name], stale variant
current_after_delete_stale(current_project, project_name, remaining) == current_project

\* config['current_project'] after del config['projects'][name]
current_after_delete(current_project, project_name, remaining) ==
    IF current_project = project_name
    THEN IF remaining # <<>> THEN remaining[1] ELSE NoProject
    ELSE current_project

create_project ==
    \E raw \in ProjectNames :
        LET project_name == strip(raw, {" "})
            project_path == get_project_path(project_name)
            made == [makedirs(projects_dir, project_path) EXCEPT ![project_path].uploads = TRUE]
        IN  /\ req' = [op |-> "create_project", name |-> raw]
            /\ IF project_name = <<>>
               THEN /\ resp' = Response("create_project", 400, {"name required"})
                    /\ UNCHANGED <<config, projects_dir>>
               ELSE IF project_name \in Range(config.projects)
               THEN /\ resp' = Response("create_project", 400, {"exists"})
                    /\ UNCHANGED <<config, projects_dir>>
               ELSE /\ config' = [current_project |-> project_name,
                                  projects |-> Append(config.projects, project_name)]
                    /\ projects_dir' =
                           [made EXCEPT
                              ![project_path].settings = TRUE,
                              ![project_path].audit_log =
                                  log_audit(made[project_path].audit_log,
                                            AuditEntry("PROJECT_CREATED", project_name), "none")]
                    /\ resp' = Response("create_project", 200, {})
            /\ UNCHANGED <<pickle, excel, data_cache, upload_log, uploads_dir, next_id, dl, up,
                        writer_vars, reader_vars, audit_vars, letters_vars>>

delete_project ==
    \E project_name \in ProjectNames :
        /\ req' = [op |-> "delete_project", name |-> project_name]
        /\ IF project_name \notin Range(config.projects)
           THEN /\ resp' = Response("delete_project", 404, {"not found"})
                /\ UNCHANGED <<config, projects_dir>>
           ELSE LET project_path == get_project_path(project_name)
                    remaining == without(config.projects, project_name)
                IN  /\ projects_dir' = IF projects_dir[project_path].exists
                                       THEN rmtree(projects_dir, project_path)
                                       ELSE projects_dir
                    /\ config' = [current_project |->
                                      current_after_delete(config.current_project,
                                                           project_name, remaining),
                                  projects |-> remaining]
                    /\ resp' = Response("delete_project", 200, {})
        /\ UNCHANGED <<pickle, excel, data_cache, upload_log, uploads_dir, next_id, dl, up,
                    writer_vars, reader_vars, audit_vars, letters_vars>>

select_project ==
    \E project_name \in ProjectNames :
        /\ req' = [op |-> "select_project", name |-> project_name]
        /\ IF project_name \notin Range(config.projects)
           THEN /\ resp' = Response("select_project", 404, {"not found"})
                /\ UNCHANGED config
           ELSE /\ config' = [config EXCEPT !.current_project = project_name]
                /\ resp' = Response("select_project", 200, {})
        /\ UNCHANGED projects_dir
        /\ UNCHANGED <<pickle, excel, data_cache, upload_log, uploads_dir, next_id, dl, up,
                    writer_vars, reader_vars, audit_vars, letters_vars>>

-----------------------------------------------------------------------------
(* A freshly created, selected project without data; nothing written yet *)

Downloaders == {"d1", "d2"}

EncIdle == [pc |-> "idle", cols |-> 0, letter |-> <<>>]

DlIdle == [pc |-> "idle", export_df |-> NoTable, served |-> "none"]

UpIdle == [pc |-> "idle", op |-> "none", id |-> 0, rows |-> 0]

InitStore ==
    /\ pickle = NoFile
    /\ excel = NoFile
    /\ data_cache = NoCache
    /\ upload_log = <<>>
    /\ uploads_dir = {}
    /\ next_id = 1
    /\ resp = Response("none", 0, {})

Init ==
    /\ InitStore
    /\ dl = [d \in Downloaders |-> DlIdle]
    /\ up = UpIdle
    /\ sheets_data = <<>>
    /\ package = NoPackage
    /\ col = [letters |-> <<>>, idx |-> 0, result |-> <<>>, pc |-> "loop"]
    /\ data = <<>>
    /\ frame = NoFrame
    /\ config = NoConfig
    /\ projects_dir = [p \in Paths |-> IF p = PROJECTS_DIR THEN [NoDir EXCEPT !.exists = TRUE] ELSE NoDir]
    /\ req = [op |-> "none", name |-> <<>>]
    /\ audit_log = NoAudit
    /\ calls = [made |-> 0, faults |-> 0]
    /\ completed = <<>>
    /\ appended = <<>>
    /\ enc = [t \in Downloaders |-> EncIdle]

Next ==
    \/ upload_file
    \/ upload_mapped_file
    \/ delete_upload
    \/ reset_consolidated
    \/ download_consolidated
    \/ get_date_range
    \/ download_filtered

Spec == Init /\ [][Next]_vars

-----------------------------------------------------------------------------
(* SpecConc: download_consolidated (format xlsx) step by step *)

\* lines 1015-1022: the existence check, get_cached_dataframe, export_df
DlLoad(d) ==
    \E expired \in BOOLEAN :
        /\ dl[d].pc = "idle"
        /\ pickle.exists \/ excel.exists
        /\ LET got == get_cached_dataframe(pickle, excel, data_cache, expired) IN
           IF got.raised
           THEN /\ dl' = [dl EXCEPT ![d] = [DlIdle EXCEPT !.served = "error"]]
                /\ UNCHANGED <<pickle, excel, data_cache>>
           ELSE /\ dl' = [dl EXCEPT ![d] = [pc |-> "check", export_df |-> ExportDf(got.df),
                                            served |-> "none"]]
                /\ Commit(pickle, excel, got.cache)
        /\ UNCHANGED <<upload_log, uploads_dir, next_id, resp, up, writer_vars, reader_vars, admin_vars>>

\* send_file(files['excel']): what the client receives of the path
SendFile(xl) == IF ~xl.exists THEN "error"
                ELSE IF xl.complete THEN "complete" ELSE "partial"

\* lines 1035-1039: a cached xlsx not older than the pickle is sent as it is
DlCheck(d) ==
    /\ dl[d].pc = "check"
    /\ IF ExcelUpToDate(pickle, excel)
       THEN dl' = [dl EXCEPT ![d] = [DlIdle EXCEPT !.served = SendFile(excel)]]
       ELSE dl' = [dl EXCEPT ![d].pc = "open"]
    /\ UNCHANGED <<pickle, excel, data_cache, upload_log, uploads_dir, next_id, resp, up, writer_vars, reader_vars, admin_vars>>

\* line 507: zipfile.ZipFile(output, 'w') creates or truncates the path
DlOpen(d) ==
    /\ dl[d].pc = "open"
    /\ Commit(pickle,
              [exists |-> TRUE, df |-> NoTable, mtime |-> now, complete |-> FALSE,
               writers |-> (IF excel.exists THEN excel.writers ELSE {}) \cup {d},
               torn |-> excel.exists /\ excel.writers # {}],
              data_cache)
    /\ dl' = [dl EXCEPT ![d].pc = "close"]
    /\ UNCHANGED <<upload_log, uploads_dir, next_id, resp, up, writer_vars, reader_vars, admin_vars>>

\* lines 508-515: the parts are written and the archive is closed.  A path
\* removed or replaced meanwhile is not touched; of a torn file either the
\* last archive closed is whole or none is.
DlClose(d) ==
    \E whole \in BOOLEAN :
        /\ dl[d].pc = "close"
        /\ IF excel.exists /\ d \in excel.writers
           THEN LET left == excel.writers \ {d} IN
                Commit(pickle,
                       IF left = {} /\ (whole \/ ~excel.torn)
                       THEN WriteFile(dl[d].export_df, now)
                       ELSE [excel EXCEPT !.writers = left, !.mtime = now],
                       data_cache)
           ELSE UNCHANGED <<pickle, excel, data_cache>>
        /\ dl' = [dl EXCEPT ![d].pc = "send"]
        /\ UNCHANGED <<upload_log, uploads_dir, next_id, resp, up, writer_vars, reader_vars, admin_vars>>

\* line 1043: send_file(files['excel'])
DlSend(d) ==
    /\ dl[d].pc = "send"
    /\ dl' = [dl EXCEPT ![d] = [DlIdle EXCEPT !.served = SendFile(excel)]]
    /\ UNCHANGED <<pickle, excel, data_cache, upload_log, uploads_dir, next_id, resp, up, writer_vars, reader_vars, admin_vars>>

-----------------------------------------------------------------------------
(* SpecConc: POST /upload of one file and DELETE /api/uploads/<id>, step by *)
(* step: the pickle is written, then the cache cleared, then the xlsx       *)
(* removed, then the upload log saved.                                      *)

\* combine_files lines 544-577
UpMerge ==
    \E file \in Files :
        /\ up.pc = "idle"
        /\ next_id <= MaxUploads
        /\ allowed_file(file)
        /\ ~save_raises(file)
        /\ LET result == combine_files(pickle, excel, file, next_id, now, FALSE) IN
           /\ result.success
           /\ Commit(result.pickle, excel, data_cache)
           /\ up' = [pc |-> "clear", op |-> "upload", id |-> next_id,
                     rows |-> result.rows_added]
        /\ next_id' = next_id + 1
        /\ UNCHANGED <<upload_log, uploads_dir, resp, dl, writer_vars, reader_vars, admin_vars>>

\* delete_upload lines 813-839; without a pickle only the log is updated
DelWrite ==
    \E upload_id \in LogIds(upload_log) :
        /\ up.pc = "idle"
        /\ IF pickle.exists
           THEN /\ LET rows == DropRows(pickle.df.rows, upload_id) IN
                   Commit(IF Len(rows) > 0
                          THEN WriteFile([cols |-> pickle.df.cols, rows |-> rows], now)
                          ELSE NoFile,
                          excel, data_cache)
                /\ up' = [pc |-> "clear", op |-> "delete", id |-> upload_id, rows |-> 0]
                /\ UNCHANGED <<upload_log, uploads_dir>>
           ELSE /\ upload_log' = LogWithout(upload_log, upload_id)
                /\ uploads_dir' = uploads_dir \ {upload_id}
                /\ UNCHANGED <<pickle, excel, data_cache, up>>
        /\ UNCHANGED <<next_id, resp, dl, writer_vars, reader_vars, admin_vars>>

\* clear_cache(project_name)
UpClear ==
    /\ up.pc = "clear"
    /\ Commit(pickle, excel, NoCache)
    /\ up' = [up EXCEPT !.pc = "remove"]
    /\ UNCHANGED <<upload_log, uploads_dir, next_id, resp, dl, writer_vars, reader_vars, admin_vars>>

\* the removal of the stale xlsx, then the upload log is saved
UpRemove ==
    \E rmOk \in BOOLEAN :
        /\ up.pc = "remove"
        /\ Commit(pickle, RemoveStaleExcel(excel, rmOk), data_cache)
        /\ upload_log' = IF up.op = "upload"
                         THEN Append(upload_log, LogEntry(up.id, up.rows, FALSE))
                         ELSE LogWithout(upload_log, up.id)
        /\ uploads_dir' = IF up.op = "upload" THEN uploads_dir \cup {up.id}
                          ELSE uploads_dir \ {up.id}
        /\ up' = UpIdle
        /\ UNCHANGED <<next_id, resp, dl, writer_vars, reader_vars, admin_vars>>

NextConc ==
    \/ \E d \in Downloaders : DlLoad(d)
    \/ \E d \in Downloaders : DlCheck(d)
    \/ \E d \in Downloaders : DlOpen(d)
    \/ \E d \in Downloaders : DlClose(d)
    \/ \E d \in Downloaders : DlSend(d)
    \/ UpMerge
    \/ DelWrite
    \/ UpClear
    \/ UpRemove

SpecConc == Init /\ [][NextConc]_vars

-----------------------------------------------------------------------------
(* SpecXlsx: sheet lists built sheet by sheet and column by column, and     *)
(* _write_xlsx_raw applied to them                                          *)

\* sheets.append((sheet_name, DataFrame)) with a frame of nrows rows
AddSheet ==
    \E nrows \in 0..MaxRows :
        /\ SizeOf(sheets_data) + 1 <= MaxSize
        /\ sheets_data' = Append(sheets_data,
                                 [name |-> Sheet1, df |-> [nrows |-> nrows, cols |-> <<>>]])
        /\ package' = NoPackage
        /\ UNCHANGED <<store_vars, reader_vars, admin_vars, col>>

\* one more column in the frame of the last sheet
AddColumn ==
    \E header \in ColumnLabels, kind \in Kinds :
        /\ sheets_data # <<>>
        /\ LET n == Len(sheets_data)
               df == sheets_data[n].df
           IN  /\ SizeOf(sheets_data) + 1 + df.nrows <= MaxSize
               /\ \E vals \in [1..df.nrows -> KindValues(kind)] :
                      sheets_data' =
                          [sheets_data EXCEPT ![n].df.cols =
                              Append(@, [header |-> header, kind |-> kind, vals |-> vals])]
        /\ package' = NoPackage
        /\ UNCHANGED <<store_vars, reader_vars, admin_vars, col>>

write_xlsx_raw ==
    /\ package' = _write_xlsx_raw(sheets_data)
    /\ UNCHANGED <<store_vars, reader_vars, admin_vars, sheets_data, col>>

NextXlsx ==
    \/ AddSheet
    \/ AddColumn
    \/ write_xlsx_raw

SpecXlsx == Init /\ [][NextXlsx]_vars

-----------------------------------------------------------------------------
(* SpecBook: packages of named sheets, as the multi-sheet exports build them *)

\* sheet names: plain, with & < >, with a double quote
SheetNames == {Sheet1, <<"R", "&", "D", "<", "1", ">">>, <<"a", "\"", "b">>}

\* the frames of the named sheets: no column, a numeric column without rows, a text
\* column with one row
BookFrames ==
    {[nrows |-> 0, cols |-> <<>>],
     [nrows |-> 0, cols |-> <<[header |-> IntVal(1), kind |-> "i", vals |-> <<>>]>>],
     [nrows |-> 1, cols |-> <<[header |-> StrVal(<<"<", "N", "A", ">">>), kind |-> "O",
                               vals |-> <<StrVal(<<"a">>)>>]>>]}

\* one more (sheet_name, DataFrame) pair in the list
AddNamedSheet ==
    \E name \in SheetNames, df \in BookFrames :
        /\ Len(sheets_data) < MaxSheets
        /\ sheets_data' = Append(sheets_data, [name |-> name, df |-> df])
        /\ package' = NoPackage
        /\ UNCHANGED <<store_vars, reader_vars, admin_vars, col>>

NextBook ==
    \/ AddNamedSheet
    \/ write_xlsx_raw

SpecBook == Init /\ [][NextBook]_vars

-----------------------------------------------------------------------------
(* SpecRead: the first sheet of an uploaded workbook, built cell by cell    *)
(* and row by row, and read by read_file along either branch of HAS_CALAMINE *)

\* header cells: texts (one spelled like a renamed duplicate) and a blank cell
HeaderCells == {StrVal(<<"A">>), StrVal(<<"B">>), StrVal(<<"A", ".", "1">>), None}

\* one more cell in the header row
AddHeaderCell ==
    /\ frame = NoFrame
    /\ Len(data) <= 1
    /\ \E cell \in HeaderCells :
          IF data = <<>> THEN data' = <<(<<cell>>)>>
          ELSE /\ Len(data[1]) < MaxColumns
               /\ data' = <<Append(data[1], cell)>>
    /\ UNCHANGED <<store_vars, writer_vars, admin_vars, frame>>

\* one more row below, every cell of it holding the number of the row
AddDataRow ==
    /\ frame = NoFrame
    /\ data # <<>>
    /\ Len(data) - 1 < MaxDataRows
    /\ data' = Append(data, [i \in 1..Len(data[1]) |-> IntVal(Len(data))])
    /\ UNCHANGED <<store_vars, writer_vars, admin_vars, frame>>

\* read_file with HAS_CALAMINE
ReadCalamine ==
    /\ frame' = [reader |-> "calamine", df |-> _read_excel_calamine(data)]
    /\ frame' # frame
    /\ UNCHANGED <<store_vars, writer_vars, admin_vars, data>>

\* read_file without HAS_CALAMINE
ReadOpenpyxl ==
    /\ frame' = [reader |-> "openpyxl", df |-> read_excel(data)]
    /\ frame' # frame
    /\ UNCHANGED <<store_vars, writer_vars, admin_vars, data>>

NextRead ==
    \/ AddHeaderCell
    \/ AddDataRow
    \/ ReadCalamine
    \/ ReadOpenpyxl

SpecRead == Init /\ [][NextRead]_vars

-----------------------------------------------------------------------------
(* SpecCol: _COL_LETTERS filled by _col_letter(0), _col_letter(1), ...,     *)
(* each call run one loop iteration at a time                               *)

\* result = chr(65 + idx % 26) + result; idx = idx // 26 - 1; if idx < 0: break
ColLoop ==
    /\ col.pc = "loop"
    /\ LET idx1 == col_rest(col.idx)
       IN  col' = [col EXCEPT !.result = <<col_digit(col.idx)>> \o col.result,
                              !.idx = idx1,
                              !.pc = IF idx1 < 0 THEN "return" ELSE "loop"]
    /\ UNCHANGED <<store_vars, reader_vars, admin_vars, sheets_data, package>>

\* _COL_LETTERS.append(_col_letter(len(_COL_LETTERS))): the result is stored and the
\* call for the next index starts
ColAppend ==
    /\ col.pc = "return"
    /\ Len(col.letters) + 1 < MaxIndex
    /\ col' = [letters |-> Append(col.letters, col.result),
               idx |-> Len(col.letters) + 1, result |-> <<>>, pc |-> "loop"]
    /\ UNCHANGED <<store_vars, reader_vars, admin_vars, sheets_data, package>>

NextCol ==
    \/ ColLoop
    \/ ColAppend

\* a running loop goes on running
SpecCol == Init /\ [][NextCol]_vars /\ WF_vars(ColLoop)

-----------------------------------------------------------------------------
(* SpecProj: the project requests *)

NextProj ==
    \/ create_project
    \/ delete_project
    \/ select_project

SpecProj == Init /\ [][NextProj]_vars

-----------------------------------------------------------------------------
(* SpecAudit: a sequence of log_audit calls for one project *)

MaxCalls == 502

MaxFaults == 1

\* One call; the entry is identified by the number of the call
LogAudit ==
    \E fault \in Faults :
        LET entry == AuditEntry("FILE_UPLOADED", calls.made + 1) IN
        /\ calls.made < MaxCalls
        /\ fault # "none" => calls.faults < MaxFaults
        /\ audit_log' = log_audit(audit_log, entry, fault)
        /\ completed' = IF audit_written(audit_log, fault)
                        THEN Append(completed, entry) ELSE completed
        /\ calls' = [made |-> calls.made + 1,
                     faults |-> calls.faults + (IF fault = "none" THEN 0 ELSE 1)]
        /\ UNCHANGED <<store_vars, writer_vars, reader_vars, project_vars, letters_vars>>

SpecAudit == Init /\ [][LogAudit]_vars

-----------------------------------------------------------------------------
(* SpecLetters: request threads extending _COL_LETTERS in _df_to_sheet_xml *)

\* _COL_LETTERS = [_col_letter(i) for i in range(300)]
PrecomputedLetters == 300

MaxExtraCols == 2

\* The module-level list: the entries computed at import, then those appended
_COL_LETTERS == [i \in 1..PrecomputedLetters |-> _col_letter(i - 1)] \o appended

\* rows, cols = df.shape of a sheet wider than the precomputed list
EncStart(t) ==
    /\ enc[t].pc = "idle"
    /\ \E cols \in (PrecomputedLetters + 1)..(PrecomputedLetters + MaxExtraCols) :
           enc' = [enc EXCEPT ![t] = [pc |-> "while", cols |-> cols, letter |-> <<>>]]
    /\ UNCHANGED <<store_vars, writer_vars, reader_vars, project_vars, audit_vars, appended>>

\* while len(_COL_LETTERS) < cols
EncWhile(t) ==
    /\ enc[t].pc = "while"
    /\ enc' = [enc EXCEPT ![t] = IF Len(_COL_LETTERS) < enc[t].cols
                                 THEN [@ EXCEPT !.pc = "letter"] ELSE EncIdle]
    /\ UNCHANGED <<store_vars, writer_vars, reader_vars, project_vars, audit_vars, appended>>

\* _col_letter(len(_COL_LETTERS)), the argument of append
EncLetter(t) ==
    /\ enc[t].pc = "letter"
    /\ enc' = [enc EXCEPT ![t] = [@ EXCEPT !.pc = "append",
                                           !.letter = _col_letter(Len(_COL_LETTERS))]]
    /\ UNCHANGED <<store_vars, writer_vars, reader_vars, project_vars, audit_vars, appended>>

\* _COL_LETTERS.append(...)
EncAppend(t) ==
    /\ enc[t].pc = "append"
    /\ appended' = Append(appended, enc[t].letter)
    /\ enc' = [enc EXCEPT ![t] = [@ EXCEPT !.pc = "while", !.letter = <<>>]]
    /\ UNCHANGED <<store_vars, writer_vars, reader_vars, project_vars, audit_vars>>

NextLetters ==
    \E t \in Downloaders :
        \/ EncStart(t)
        \/ EncWhile(t)
        \/ EncLetter(t)
        \/ EncAppend(t)

SpecLetters == Init /\ [][NextLetters]_vars

-----------------------------------------------------------------------------
(* Claims about the store *)

\* C1: combine_files called for a project with a persisted table and a file
\* whose ordered column list (without _upload_id) differs from the table's
\* returns a failure and leaves the pickle (and every other file) as it was.
C1_SchemaMismatchRejected ==
    \A f \in Files, rmOk \in BOOLEAN :
        (pickle.exists /\ f.kind = "ok"
            /\ VisibleCols(f.cols) # VisibleCols(pickle.df.cols))
        => LET result == combine_files(pickle, excel, f, next_id, now, rmOk) IN
           /\ ~result.success
           /\ result.pickle = pickle
           /\ result.excel = excel
           /\ ~result.cleared

\* POST /upload has answered with a "Column headers do not match!" failure
\* for a project that has a persisted table
C1_Witness ==
    /\ resp.op = "upload"
    /\ MismatchError \in resp.notes
    /\ pickle.exists
    /\ pickle.df.rows # <<>>

\* C2 (as claimed): the column signature of the persisted table (here one with at
\* least one data column) never changes while the table exists, whatever merge
\* request (POST /upload, POST /upload-mapped) is served.
C2_SignatureNeverChanges ==
    [][(pickle.exists /\ VisibleCols(pickle.df.cols) # <<>> /\ pickle'.exists)
        => VisibleCols(pickle'.df.cols) = VisibleCols(pickle.df.cols)]_vars

\* C4 (as claimed): a request that changes the persisted table leaves no
\* cached xlsx behind.
C4_SnapshotChangeRemovesExcel ==
    [][(pickle'.exists # pickle.exists \/ pickle'.df # pickle.df) => ~excel'.exists]_vars

-----------------------------------------------------------------------------
(* Claims about concurrent requests *)

AllIdle == up.pc = "idle" /\ \A d \in Downloaders : dl[d].pc = "idle"

\* C3 (as claimed): no request is ever sent a partially written archive.
C3_NoPartialArchiveServed == \A d \in Downloaders : dl[d].served # "partial"

\* C5 (as claimed): once every request has finished, an xlsx that /download
\* would send from disk was generated from the persisted table.
C5_ServableExcelIsCurrent ==
    (AllIdle /\ ExcelUpToDate(pickle, excel))
        => (excel.complete /\ excel.df = ExportDf(pickle.df))

-----------------------------------------------------------------------------
(* The xlsx writer *)

\* the set handed to sorted() by _write_xlsx_raw for the current sheet list
CollectedStrings ==
    UNION {_collect_strings(sheets_data[k].df) : k \in 1..Len(sheets_data)}

\* the shared-string cells of all worksheets of the package
SharedCells ==
    {cell \in UNION {CellsOf(package.ws_xmls[k]) : k \in 1..Len(package.ws_xmls)} :
        cell.t = "s"}

\* C6: every shared-string lookup made while encoding the sheets (a header's text, a
\* textual cell after the missing tokens are blanked, the empty string for a NaN or
\* infinite number) finds its key in the table collected from the same sheets: the
\* encoding never raises KeyError.
C6_LookupsAreInTable ==
    /\ package.state # "KeyError"
    /\ package.state = "written" =>
           \A cell \in SharedCells :
               /\ cell.key \in CollectedStrings
               /\ cell.key \in DOMAIN package.sst_index
               /\ cell.v = package.sst_index[cell.key]

\* a written sheet with a header, a None text cell and an infinite number
C6_Witness ==
    /\ package.state = "written"
    /\ \E k \in 1..Len(sheets_data) :
           LET df == sheets_data[k].df
               ws == package.ws_xmls[k]
           IN  /\ df.nrows = 1
               /\ \E c1, c2 \in 1..Len(df.cols) :
                      /\ df.cols[c1].kind = "O" /\ df.cols[c1].vals[1] = None
                      /\ df.cols[c2].kind = "f" /\ df.cols[c2].vals[1] = PosInf
                      /\ ws[1][c1].key = str(df.cols[c1].header)
                      /\ ws[2][c1].key = <<>> /\ ws[2][c1].v # KeyError
                      /\ ws[2][c2].key = <<>> /\ ws[2][c2].v # KeyError

\* C7 (as claimed): the string table of a package always contains the empty string,
\* and for an empty sheet list it contains the empty string and nothing else.
C7_TableHoldsEmptyString ==
    package.state = "written" =>
        /\ <<>> \in Range(package.sst)
        /\ sheets_data = <<>> => Range(package.sst) = {<<>>}

\* C8: the string-to-index map of a package is a bijection between the collected
\* strings and 0 .. N-1 that follows the sorted order, every sheet's cells use that one
\* map, and the i-th <si> entry of the shared-strings part is the (escaped) string
\* with index i.
C8_IndexIsSortedBijection ==
    package.state = "written" =>
        LET sst_index == package.sst_index
            N == Len(package.sst)
        IN  /\ DOMAIN sst_index = CollectedStrings
            /\ Cardinality(CollectedStrings) = N
            /\ {sst_index[s] : s \in CollectedStrings} = 0..(N - 1)
            /\ \A s, o \in CollectedStrings : str_lt(s, o) <=> sst_index[s] < sst_index[o]
            /\ \A cell \in SharedCells : cell.v = sst_index[cell.key]
            /\ Len(package.sst_xml) = N
            /\ \A s \in CollectedStrings : package.sst_xml[sst_index[s] + 1] = _xml_escape(s)

\* two written sheets whose cells share a non-empty string, in a table of three strings
C8_Witness ==
    /\ package.state = "written"
    /\ Len(sheets_data) = 2
    /\ Len(package.sst) >= 3
    /\ \E c1 \in CellsOf(package.ws_xmls[1]), c2 \in CellsOf(package.ws_xmls[2]) :
           c1.key = c2.key /\ c1.key # <<>> /\ c1.v = c2.v /\ c1.v > 0

\* C10: a cell of a numeric column (dtype kind i, u or f) holding NaN, +Infinity or
\* -Infinity is emitted as a shared-string cell referencing the index of the empty
\* string; any other cell of a numeric column is emitted as the bare number.
C10_NumericCells ==
    package.state = "written" =>
        \A k \in 1..Len(sheets_data) :
            LET df == sheets_data[k].df IN
            \A c \in 1..Len(df.cols), r \in 1..df.nrows :
                df.cols[c].kind \in {"i", "u", "f"} =>
                    LET val == df.cols[c].vals[r]
                        cell == package.ws_xmls[k][r + 1][c]
                    IN  IF val.t \in {"nan", "inf", "-inf"}
                        THEN cell.t = "s" /\ cell.v = package.sst_index[<<>>]
                        ELSE cell.t = "n" /\ cell.val = val

\* a written sheet with an infinite and a finite number
C10_Witness ==
    /\ package.state = "written"
    /\ \E k \in 1..Len(sheets_data) :
           LET df == sheets_data[k].df IN
           /\ df.nrows = 1
           /\ \E c1, c2 \in 1..Len(df.cols) :
                  /\ df.cols[c1].kind = "f" /\ df.cols[c1].vals[1] = NegInf
                  /\ package.ws_xmls[k][2][c1].t = "s"
                  /\ df.cols[c2].kind = "f" /\ df.cols[c2].vals[1] = FloatVal(1)
                  /\ package.ws_xmls[k][2][c2].t = "n"

-----------------------------------------------------------------------------
(* _col_letter *)

\* the number a letter string denotes in bijective base 26 (A = 1, ..., Z = 26,
\* AA = 27, ...): the position of the string in the sequence A, B, ..., Z, AA, AB, ...
RECURSIVE BijectiveValue(_)
BijectiveValue(s) ==
    IF s = <<>> THEN 0
    ELSE 26 * BijectiveValue(SubSeq(s, 1, Len(s) - 1)) + (ord(s[Len(s)]) - 64)

\* what a finished _col_letter(i) call returns, i being the number of earlier results
ColReturned ==
    col.pc = "return" =>
        LET i == Len(col.letters) IN
        /\ col.result = _col_letter(i)
        /\ \A k \in 1..Len(col.result) : col.result[k] \in Range(ascii_uppercase)
        /\ BijectiveValue(col.result) = i + 1
        /\ col.result \notin Range(col.letters)
        /\ i = 25 => col.result = <<"Z">>
        /\ i = 26 => col.result = <<"A", "A">>
        /\ i = 701 => col.result = <<"Z", "Z">>
        /\ i = 702 => col.result = <<"A", "A", "A">>

\* C9: for every index i below MaxIndex, _col_letter(i) is the i-th element of the
\* bijective base-26 sequence A, B, ..., Z, AA, AB, ...; the results are pairwise
\* distinct; 25, 26, 701 and 702 give Z, AA, ZZ and AAA; and the loop terminates: each
\* iteration that does not break leaves a smaller non-negative idx, and every call
\* returns.
C9_ColLetter ==
    /\ []ColReturned
    /\ [][(col.pc = "loop" /\ col'.pc = "loop") => (0 <= col'.idx /\ col'.idx < col.idx)]_vars
    /\ (col.pc = "loop") ~> (col.pc = "return")

\* _col_letter(702) has returned AAA after three iterations
C9_Witness ==
    /\ col.pc = "return"
    /\ Len(col.letters) = 702
    /\ col.result = <<"A", "A", "A">>

-----------------------------------------------------------------------------
(* The parts of a package *)

\* the part a relationship of xl/_rels/workbook.xml.rels targets
PartOf(rel) == <<Seg("xl")>> \o rel.Target

\* the name of the k-th worksheet part
SheetPart(k) == <<Seg("xl"), Seg("worksheets"), SheetSeg(k)>>

\* C11: every sheet of the workbook manifest has exactly one relationship with its
\* r:id, one content-type override for the part that relationship targets and one
\* archive entry xl/worksheets/sheet<k>.xml; the relationship ids are pairwise
\* distinct: rId1..rIdn for the sheets, rId(n+1) for styles, rId(n+2) for the shared
\* strings.
C11_PartsAreConsistent ==
    package.state = "written" =>
        LET n == Len(sheets_data)
            wb == package.workbook_xml
            rels == package.wb_rels
            ct == package.content_types
            zip == package.zip
        IN  /\ Len(wb) = n
            /\ \A k \in 1..Len(wb) :
                   /\ Cardinality({j \in DOMAIN rels : rels[j].Id = wb[k].rid}) = 1
                   /\ LET rel == rels[CHOOSE j \in DOMAIN rels : rels[j].Id = wb[k].rid]
                      IN  /\ rel.Type = "worksheet"
                          /\ PartOf(rel) = SheetPart(k)
                          /\ Cardinality({j \in DOMAIN ct : Tail(ct[j]) = PartOf(rel)}) = 1
                          /\ Cardinality({j \in DOMAIN zip : zip[j].name = PartOf(rel)}) = 1
            /\ \A i, j \in DOMAIN rels : i # j => rels[i].Id # rels[j].Id
            /\ {rels[j].Id : j \in {i \in DOMAIN rels : rels[i].Type = "worksheet"}} = 1..n
            /\ \A j \in DOMAIN rels :
                   /\ rels[j].Type = "styles" => rels[j].Id = n + 1
                   /\ rels[j].Type = "sharedStrings" => rels[j].Id = n + 2
            /\ {"styles", "sharedStrings"} \subseteq {rels[j].Type : j \in DOMAIN rels}

\* a written package of three sheets
C11_Witness ==
    /\ package.state = "written"
    /\ Len(sheets_data) = 3
    /\ Len(package.wb_rels) = 5

\* & &lt; &gt; &quot; &apos; read back as the characters they stand for
RECURSIVE xml_unescape(_)
xml_unescape(s) ==
    LET starts(p) == Len(s) >= Len(p) /\ SubSeq(s, 1, Len(p)) = p
        rest(p) == xml_unescape(SubSeq(s, Len(p) + 1, Len(s)))
    IN  IF s = <<>> THEN <<>>
        ELSE IF starts(<<"&", "a", "m", "p", ";">>) THEN <<"&">> \o rest(<<"&", "a", "m", "p", ";">>)
        ELSE IF starts(<<"&", "l", "t", ";">>) THEN <<"<">> \o rest(<<"&", "l", "t", ";">>)
        ELSE IF starts(<<"&", "g", "t", ";">>) THEN <<">">> \o rest(<<"&", "g", "t", ";">>)
        ELSE IF starts(<<"&", "q", "u", "o", "t", ";">>)
             THEN <<"\"">> \o rest(<<"&", "q", "u", "o", "t", ";">>)
        ELSE IF starts(<<"&", "a", "p", "o", "s", ";">>)
             THEN <<"'">> \o rest(<<"&", "a", "p", "o", "s", ";">>)
        ELSE <<Head(s)>> \o xml_unescape(Tail(s))

\* what a reader takes as the value of name="...": the text up to the closing quote
RECURSIVE AttributeValue(_)
AttributeValue(written) ==
    IF written = <<>> \/ Head(written) = "\"" THEN <<>>
    ELSE <<Head(written)>> \o AttributeValue(Tail(written))

\* C12: the workbook manifest lists the sheets in the order of sheets_data, the k-th
\* with sheetId k and r:id rIdk, and the part that rIdk targets (worksheets/sheet<k>.xml)
\* holds the markup encoded from the k-th sheet.
C12_SheetsInInputOrder ==
    package.state = "written" =>
        /\ Len(package.workbook_xml) = Len(sheets_data)
        /\ \A k \in 1..Len(sheets_data) :
               LET sheet == package.workbook_xml[k]
                   rel == package.wb_rels[CHOOSE j \in DOMAIN package.wb_rels :
                                              package.wb_rels[j].Id = sheet.rid]
                   part == package.zip[CHOOSE j \in DOMAIN package.zip :
                                           package.zip[j].name = PartOf(rel)]
               IN  /\ sheet.name = _xml_escape(sheets_data[k].name)
                   /\ sheet.sheetId = k
                   /\ sheet.rid = k
                   /\ PartOf(rel) = SheetPart(k)
                   /\ part.ws = _df_to_sheet_xml(sheets_data[k].df, package.sst_index)

\* a written package of two sheets with different names and different frames
C12_Witness ==
    /\ package.state = "written"
    /\ Len(sheets_data) = 2
    /\ sheets_data[1].name # sheets_data[2].name
    /\ package.ws_xmls[1] # package.ws_xmls[2]
    /\ package.zip[7].ws = package.ws_xmls[1]
    /\ package.zip[8].ws = package.ws_xmls[2]

\* C13 (as claimed): the sheet names written into name="..." and the string-table
\* entries written into <t>...</t> are escaped for &, <, > and quotes, so a reader gets
\* back the original text.
C13_MarkupTextRoundTrips ==
    package.state = "written" =>
        /\ \A k \in 1..Len(sheets_data) :
               xml_unescape(AttributeValue(package.workbook_xml[k].name)) = sheets_data[k].name
        /\ \A i \in 1..Len(package.sst) :
               /\ xml_unescape(package.sst_xml[i]) = package.sst[i]
               /\ "<" \notin Range(package.sst_xml[i])

\* C15: _write_xlsx_raw([], output) completes and the archive holds the content types,
\* the root relationships, the workbook relationships, the workbook manifest, styles
\* and shared strings, with no sheet in the manifest and no worksheet part.
C15_EmptyPackage ==
    (sheets_data = <<>> /\ package.state # "none") =>
        /\ package.state = "written"
        /\ package.workbook_xml = <<>>
        /\ [j \in DOMAIN package.zip |-> package.zip[j].name]
               = <<<<Seg("[Content_Types].xml")>>,
                   <<Seg("_rels"), Seg(".rels")>>,
                   <<Seg("xl"), Seg("_rels"), Seg("workbook.xml.rels")>>,
                   <<Seg("xl"), Seg("workbook.xml")>>,
                   <<Seg("xl"), Seg("styles.xml")>>,
                   <<Seg("xl"), Seg("sharedStrings.xml")>>>>
        /\ \A j \in DOMAIN package.content_types :
               package.content_types[j][3] # Seg("worksheets")
        /\ \A j \in DOMAIN package.wb_rels : package.wb_rels[j].Type # "worksheet"

\* the package of the empty sheet list has been written
C15_Witness ==
    /\ sheets_data = <<>>
    /\ package.state = "written"
    /\ Len(package.zip) = 6

-----------------------------------------------------------------------------
(* I/O failures of the archive write *)

\* C14 (as claimed): a failed archive write is answered with an error, and a file it
\* left behind is never served as the xlsx artifact afterwards: every xlsx that
\* GET /download sends is a whole archive.
C14_WriteFailureLeavesNoArtifact ==
    /\ "write error" \in resp.notes => resp.status = 500
    /\ (resp.op = "download" /\ resp.status = 200 /\ "xlsx" \in resp.notes)
           => (excel.exists /\ excel.complete)

-----------------------------------------------------------------------------
(* Claims about the Excel readers *)

\* C16: the two reader paths of read_file give the same header list and the
\* same rows for the same sheet: what one reader has returned is what the
\* other returns for that sheet.
C16_ReadersAgree ==
    /\ frame.reader = "calamine" => frame.df = read_excel(data)
    /\ frame.reader = "openpyxl" => frame.df = _read_excel_calamine(data)

\* the header text _deduplicate_columns counts
HeaderText(cell) == IF cell = None THEN <<>> ELSE str(cell)

\* the cells left of cell i of a header row that hold the text of cell i
EarlierSame(header, i) ==
    {j \in 1..(i - 1) : HeaderText(header[j]) = HeaderText(header[i])}

ABAA == <<StrVal(<<"A">>), StrVal(<<"B">>), StrVal(<<"A">>), StrVal(<<"A">>)>>

\* C17: the headers of a sheet read on the fast path are as many as the cells
\* of its first row and in their order; a cell whose text no cell to its left
\* holds keeps that text, and a cell whose text k cells to its left hold is
\* named "<text>.k"; A, B, A, A is read as A, B, A.1, A.2.
C17_DuplicatesNumbered ==
    (frame.reader = "calamine" /\ Len(data) >= 2) =>
        /\ Len(frame.df.cols) = Len(data[1])
        /\ \A i \in 1..Len(data[1]) :
              LET k == Cardinality(EarlierSame(data[1], i))
                  text == HeaderText(data[1][i])
              IN frame.df.cols[i] =
                    IF k = 0 THEN text ELSE text \o <<".">> \o decimal(k)
        /\ data[1] = ABAA =>
              frame.df.cols = <<(<<"A">>), <<"B">>, <<"A", ".", "1">>, <<"A", ".", "2">>>>

C17_Witness ==
    /\ frame.reader = "calamine"
    /\ Len(data) >= 2
    /\ data[1] = ABAA
    /\ frame.df.cols = <<(<<"A">>), <<"B">>, <<"A", ".", "1">>, <<"A", ".", "2">>>>

\* C18: a sheet of fewer than 2 rows is read on the fast path as a frame of
\* no columns and no rows; a sheet of 2 rows or more is read with its first
\* row, deduplicated, as headers and each later row, in order, as a data row,
\* one data row fewer than the sheet has rows.
C18_FastReader ==
    frame.reader = "calamine" =>
        IF Len(data) < 2
        THEN frame.df.cols = <<>> /\ frame.df.rows = <<>>
        ELSE /\ frame.df.cols = _deduplicate_columns(data[1])
             /\ Len(frame.df.rows) = Len(data) - 1
             /\ \A k \in 1..(Len(data) - 1) : frame.df.rows[k] = data[k + 1]

C18_Witness ==
    /\ frame.reader = "calamine"
    /\ Len(data) = 1
    /\ Len(data[1]) = 2
    /\ frame.df.cols = <<>>
    /\ frame.df.rows = <<>>

-----------------------------------------------------------------------------
(* Round trip through a package: the first sheet read back from its part    *)

\* the number a string of digits denotes
RECURSIVE parse_int(_)
parse_int(s) ==
    IF s = <<>> THEN 0
    ELSE 10 * parse_int(SubSeq(s, 1, Len(s) - 1)) + (ord(s[Len(s)]) - 48)

\* the text before the decimal point
RECURSIVE IntegerPart(_)
IntegerPart(s) ==
    IF s = <<>> \/ Head(s) = "." THEN <<>> ELSE <<Head(s)>> \o IntegerPart(Tail(s))

\* the number read from the text of <v> in a cell without t="s" (the fractions
\* written are .0)
parse_float(s) == parse_int(IntegerPart(s))

\* a decoded cell: a text or a number
DecodedText(s) == [t |-> "s", n |-> 0, s |-> s]

DecodedNumber(n) == [t |-> "n", n |-> n, s |-> <<>>]

\* the worksheet stored in the archive as xl/worksheets/sheet1.xml
FirstSheetPart ==
    package.zip[CHOOSE j \in DOMAIN package.zip : package.zip[j].name = SheetPart(1)].ws

\* the cells of the first sheet part addressed at column c (1 for A) of row r_num
CellsAt(c, r_num) ==
    {cell \in CellsOf(FirstSheetPart) : BijectiveValue(cell.r[1]) = c /\ cell.r[2] = r_num}

\* what a cell of the part decodes to: a t="s" cell to the string-table entry its
\* <v> indexes, unescaped, any other cell to the number its <v> spells
Decode(cell) ==
    IF cell.t = "s"
    THEN DecodedText(xml_unescape(package.sst_xml[cell.v + 1]))
    ELSE DecodedNumber(parse_float(str(cell.val)))

\* the first sheet is there, is written, and its headers differ as texts
RoundTripCase ==
    /\ package.state = "written"
    /\ sheets_data # <<>>
    /\ LET df == sheets_data[1].df
       IN  /\ df.cols # <<>>
           /\ \A c, d \in 1..Len(df.cols) :
                 str(df.cols[c].header) = str(df.cols[d].header) => c = d

\* the texts that the writer takes for a missing value
MissingTokens ==
    {<<"n", "a", "n">>, <<"N", "o", "n", "e">>, <<"<", "N", "A", ">">>, <<"N", "a", "T">>}

\* The sheet decoded from the part has one cell per header and per value of the
\* frame, the headers in order, and every value as Expected gives it.
RoundTrip(Expected(_, _)) ==
    RoundTripCase =>
        LET df == sheets_data[1].df
        IN  /\ Len(FirstSheetPart) = 1 + df.nrows
            /\ \A c \in 1..Len(df.cols) :
                  /\ \E cell \in CellsAt(c, 1) :
                        /\ CellsAt(c, 1) = {cell}
                        /\ Decode(cell) = DecodedText(str(df.cols[c].header))
                  /\ \A r \in 1..df.nrows :
                        \E cell \in CellsAt(c, r + 1) :
                            /\ CellsAt(c, r + 1) = {cell}
                            /\ Decode(cell) = Expected(df.cols[c].kind, df.cols[c].vals[r])

\* numbers by value, NaN and the infinities as "", texts by string, missing
\* textual values as "", other values by their str()
ExpectedAsClaimed(kind, v) ==
    IF kind \in {"i", "u", "f"}
    THEN IF v.t \in {"nan", "inf", "-inf"} THEN DecodedText(<<>>) ELSE DecodedNumber(v.n)
    ELSE IF v.t = "str" THEN DecodedText(v.s)
    ELSE IF v.t \in {"nan", "None", "NA", "NaT"} THEN DecodedText(<<>>)
    ELSE DecodedText(str(v))

\* as claimed, but a text spelled nan, None, <NA> or NaT comes back as ""
ExpectedAmended(kind, v) ==
    IF kind \notin {"i", "u", "f"} /\ v.t = "str" /\ v.s \in MissingTokens
    THEN DecodedText(<<>>)
    ELSE ExpectedAsClaimed(kind, v)

-----------------------------------------------------------------------------
(* Row-level deletion *)

\* every row of the pickled table is tagged with the id of an upload in the log
RowsCarryUploadId ==
    pickle.exists =>
        /\ UPLOAD_ID \in Range(pickle.df.cols)
        /\ \A r \in DOMAIN pickle.df.rows : pickle.df.rows[r][UPLOAD_ID] \in LogIds(upload_log)

\* the rows of a table that are not tagged with uid, in their order
RowsOfOthers(rows, uid) == SelectSeq(rows, LAMBDA row : row[UPLOAD_ID] # uid)

\* a DELETE answered with 200 has removed the rows of one logged upload and nothing else
DeleteRemovesExactly ==
    (resp'.op = "delete" /\ resp'.status = 200 /\ resp' # resp) =>
        \E uid \in LogIds(upload_log) :
            /\ uid \notin LogIds(upload_log')
            /\ \A i \in DOMAIN upload_log :
                  upload_log[i].id # uid => upload_log[i] \in Range(upload_log')
            /\ pickle.exists =>
                  LET kept == RowsOfOthers(pickle.df.rows, uid)
                  IN  IF kept = <<>> THEN ~pickle'.exists
                      ELSE /\ pickle'.exists
                           /\ pickle'.df.cols = pickle.df.cols
                           /\ pickle'.df.rows = kept

\* C20: every row of the pickled table carries the id of the upload that produced
\* it, and a successful delete_upload removes exactly the rows tagged with its id:
\* the other rows stay, unchanged and in order, the pickle is deleted when no row
\* is left, and the entry of the id leaves the upload log.
C20_RowsTaggedAndDeletedById == []RowsCarryUploadId /\ [][DeleteRemovesExactly]_vars

-----------------------------------------------------------------------------
(* Multi-file uploads *)

\* a file that cannot be read or merged into the table pk
FileFails(f, pk) ==
    \/ f.kind \in {"badext", "malformed"}
    \/ f.nrows = 0 /\ f.cols # <<>> /\ f.dtype_object
    \/ pk.exists /\ VisibleCols(f.cols) # VisibleCols(pk.df.cols)

\* the error reported for such a file
ErrorOf(f, pk) ==
    IF f.kind = "badext" THEN "invalid type"
    ELSE IF f.kind = "malformed" \/ (f.nrows = 0 /\ f.cols # <<>> /\ f.dtype_object)
    THEN ExceptionError
    ELSE MismatchError

RECURSIVE SumOfRows(_)
SumOfRows(entries) ==
    IF entries = <<>> THEN 0 ELSE Head(entries).rows + SumOfRows(Tail(entries))

\* what POST /upload does with a batch in the current state
BatchOutcome(files, rmOk) ==
    upload_loop(upload_start(pickle, excel, upload_log, uploads_dir, next_id), files, now, rmOk)

\* C21: in a POST /upload batch whose loop runs to its end every file that fails
\* to be read or merged is reported with its own error in failed_files, adds no
\* rows and no log entry and leaves no copy in the uploads directory; every other
\* file is merged; a malformed file is never merged; and the response of any
\* batch is a success exactly when at least one file was merged.
C21_FailedFilesReported ==
    \A files \in Batches, rmOk \in BOOLEAN :
        next_id + Len(files) - 1 <= MaxUploads =>
            LET acc == BatchOutcome(files, rmOk)
                failed == acc.failed_files
                merged == acc.next - next_id
                new_log == SubSeq(acc.log, Len(upload_log) + 1, Len(acc.log))
                before == IF pickle.exists THEN pickle.df.rows
                          ELSE IF excel.exists /\ merged > 0 THEN excel.df.rows ELSE <<>>
                after == IF acc.pickle.exists THEN acc.pickle.df.rows ELSE <<>>
            IN  /\ ~acc.raised => Len(failed) + merged = Len(files)
                /\ Len(new_log) = merged
                /\ ~acc.raised => Cardinality({i \in DOMAIN files : files[i].kind \in {"badext", "malformed"}})
                     = Cardinality({i \in DOMAIN failed :
                                       failed[i].file.kind \in {"badext", "malformed"}})
                /\ Len(after) = Len(before) + SumOfRows(new_log)
                /\ \A r \in DOMAIN after :
                      r > Len(before) => after[r][UPLOAD_ID] \in {new_log[i].id : i \in DOMAIN new_log}
                /\ acc.dir = uploads_dir \cup {new_log[i].id : i \in DOMAIN new_log}
                /\ (pickle.exists /\ ~acc.raised) =>
                      LET failing == SelectSeq(files, LAMBDA f : FileFails(f, pickle))
                      IN  failed = [i \in DOMAIN failing |->
                                       FailedFile(failing[i], ErrorOf(failing[i], pickle))]
                /\ (upload_response(acc).status = 200) <=> (merged > 0)

\* the upload identifiers that tag rows of the pickled table ('legacy' is none)
TaggingIds ==
    IF pickle.exists /\ UPLOAD_ID \in Range(pickle.df.cols)
    THEN {pickle.df.rows[r][UPLOAD_ID] : r \in DOMAIN pickle.df.rows} \ {LegacyId}
    ELSE {}

\* C25: after every completed request, each upload identifier that tags a row of
\* the pickled table has an entry in the upload log (so DELETE finds it).
C25_TaggedUploadsAreLogged == TaggingIds \subseteq LogIds(upload_log)

-----------------------------------------------------------------------------
(* Read-only requests and exports *)

\* C23: the table held in the cache is left as it was loaded by the read-only
\* requests: while the cache entry is valid for the pickle (not older than it),
\* it equals the pickled table, cell values and cell types.
C23_CachedTableIsReadOnly ==
    (data_cache.present /\ pickle.exists /\ pickle.mtime <= data_cache.mtime)
        => data_cache.df = pickle.df

\* a file response of an export path
Exported == resp.status = 200 /\ resp.op \in {"download", "download-filtered"}

\* no exported file has the column _upload_id
UploadIdHidden == Exported => UPLOAD_ID \notin Range(resp.body.cols)

\* C29: no export has the column _upload_id, and the exported rows are otherwise
\* the rows of the persisted table in order: an export of the whole table holds
\* exactly the pickled table without that column, and a date-filtered export has
\* the table's other columns in order and no more rows than the table (exports
\* that are whole archives; a truncated one holds no table at all).
C29_ExportsHideUploadId ==
    /\ UploadIdHidden
    /\ (Exported /\ pickle.exists /\ ("cached" \in resp.notes => excel.complete)) =>
          IF "ranged" \in resp.notes
          THEN /\ resp.body.cols = VisibleCols(pickle.df.cols)
               /\ Len(resp.body.rows) <= Len(pickle.df.rows)
          ELSE resp.body = ExportDf(pickle.df)

-----------------------------------------------------------------------------
(* Cell addresses *)

-----------------------------------------------------------------------------
(* Uniqueness of deduplicated headers *)

\* C28: the headers _deduplicate_columns returns are pairwise distinct, and
\* _deduplicate_columns applied to them returns them unchanged.
C28_DedupIsDistinctAndIdempotent ==
    (frame.reader = "calamine" /\ Len(data) >= 2) =>
        LET columns == frame.df.cols
        IN  /\ \A i, j \in 1..Len(columns) : columns[i] = columns[j] => i = j
            /\ _deduplicate_columns([i \in 1..Len(columns) |-> StrVal(columns[i])]) = columns

-----------------------------------------------------------------------------
(* The column-letter list under concurrent growth *)

\* C22: in every state, during and after concurrent _df_to_sheet_xml calls for
\* sheets of more than 300 columns, _COL_LETTERS[i] is _col_letter(i) at every
\* populated index i.
C22_ColLettersStayCorrect ==
    \A i \in 1..Len(_COL_LETTERS) : _COL_LETTERS[i] = _col_letter(i - 1)

-----------------------------------------------------------------------------
(* Projects *)

\* C26: two different names accepted by create_project have different
\* directories, each a proper subdirectory of PROJECTS_DIR, and the directory
\* of a project in the config is not removed by requests on another project.
C26_ProjectsHaveDisjointStorage ==
    \A i, j \in DOMAIN config.projects :
        LET p == config.projects[i]
            q == config.projects[j]
        IN  /\ get_project_path(p) # PROJECTS_DIR
            /\ projects_dir[get_project_path(p)].exists
            /\ i # j => get_project_path(p) # get_project_path(q)

CurrentIsKnown ==
    config.current_project = NoProject \/ config.current_project \in Range(config.projects)

\* C27: current_project is None or a project of the config; a create_project
\* request with an empty or existing name is rejected and leaves the config as
\* it was; a delete_project request for the current project makes the first
\* remaining project current, or None when no project remains.
C27_CurrentProjectIsKnown ==
    /\ [] CurrentIsKnown
    /\ [][/\ (/\ req'.op = "create_project"
              /\ \/ strip(req'.name, {" "}) = <<>>
                 \/ strip(req'.name, {" "}) \in Range(config.projects))
             => (resp'.status = 400 /\ config' = config)
          /\ (/\ req'.op = "delete_project"
              /\ req'.name \in Range(config.projects)
              /\ req'.name = config.current_project)
             => /\ config'.projects = without(config.projects, req'.name)
                /\ config'.current_project =
                       IF config'.projects # <<>> THEN config'.projects[1] ELSE NoProject
         ]_vars

\* Two projects exist, the second one created is current and has been deleted
C27_Witness ==
    /\ req.op = "delete_project"
    /\ resp.status = 200
    /\ Len(config.projects) = 2
    /\ config.current_project = config.projects[1]
    /\ projects_dir[get_project_path(config.projects[1])].exists

-----------------------------------------------------------------------------
(* The audit log *)

\* C30: the audit log holds at most 500 entries, and they are the most recent
\* entries whose write completed, in call order.
C30_AuditLogHoldsRecentEntries ==
    LET held == IF audit_log.exists /\ audit_log.valid THEN audit_log.entries ELSE <<>>
    IN  /\ Len(held) <= AuditCap
        /\ held = keep_last(completed, AuditCap)

====
